---- MODULE Spec2Model ----
(***************************************************************************)
(* Student roster / attendance relay: the socket.io server (server.js),    *)
(* the browser sync client (sync-client.js), the QR handler and the        *)
(* client-side DataManager, modelled as one state machine.                 *)
(*                                                                         *)
(* JavaScript values that the code compares with both === and == are       *)
(* tagged: <<"s", n>> is the string "n", <<"n", n>> the number n.          *)
(* Wall-clock stamps on students and records are not modelled (nothing     *)
(* reads them); the stamp and the id of an attendance-log entry are the    *)
(* reading of the clock when it is made.                                   *)
(***************************************************************************)
EXTENDS Integers, Sequences, FiniteSets, TLC

\* ------------------------------------------------------------------ bounds
MaxInbox == 2         \* initial-data / data-sync messages in flight per connection
MaxOutbox == 1        \* client -> server messages in flight per connection
MaxOps == 2           \* user events (drop, add, scan, push, import) per run of the two-device specifications
MaxCalls == 3         \* user events (add, mark, DataManager call) per run of the one-device specifications
MaxEdits == 6         \* DataManager calls per run of the offline specification
MaxImports == 2       \* imports and repairs per run of the import specification
MaxRepairs == 2       \* repairs of one stored list of tombstones

\* --------------------------------------------------------- program constants
maxSessions == 8

\* ------------------------------------------------------ JavaScript values
Str(n) == <<"s", n>>                \* the string "n"
Num(n) == <<"n", n>>                \* the number n
Day(n) == <<"d", n>>                \* a toLocaleDateString('en-US') string
Undefined == <<"undefined">>
JNull == <<"null">>
NaN == <<"nan">>
Present == <<"present">>
Absent == <<"absent">>
Complete == <<"complete">>
NotDone == <<"not-done">>
NotFound == [undefined |-> TRUE]    \* what Array.find returns when nothing matches
NoPayload == [null |-> TRUE]        \* a null payload: reading a property of it throws

IsStrOrNum(v) == Len(v) = 2 /\ v[1] \in {"s", "n"}

\* a === b
StrictEq(a, b) == a = b /\ a # NaN
\* a == b: a numeric string and a number are compared as numbers
LooseEq(a, b) ==
    IF IsStrOrNum(a) /\ IsStrOrNum(b) THEN a[2] = b[2]
    ELSE IF a \in {Undefined, JNull} /\ b \in {Undefined, JNull} THEN TRUE
    ELSE a = b /\ a # NaN

\* !!v
Truthy(v) == v \notin {Undefined, JNull, NaN, Num(0)}
\* a || b
Or(a, b) == IF Truthy(a) THEN a ELSE b
\* parseInt(v)
ParseInt(v) == IF IsStrOrNum(v) THEN Num(v[2]) ELSE NaN
\* obj[f], undefined when the property is absent
Has(r, f) == f \in DOMAIN r
Field(r, f) == IF Has(r, f) THEN r[f] ELSE Undefined

\* ------------------------------------------------------------- input domains
Clients == {1, 2}
Ids == {Str(1), Num(1)}
Names == {"a", "b"}
StudentInputs == [id : Ids, fullName : Names]
Sessions == {Num(1), Str(1)}
\* what a mark carries besides its key: everything, no date, or the attendance only
Marks ==
    {[attendance |-> Present, homework |-> Complete, quiz |-> Num(8), date |-> Day(1)],
     [attendance |-> Absent, homework |-> NotDone, quiz |-> Num(0)],
     [attendance |-> Absent]}
AttendanceInputs ==
    {[studentId |-> id, studentName |-> "a", session |-> n] @@ mk :
        id \in Ids, n \in Sessions, mk \in Marks}
\* the part of a mark that UIComponents.markAttendance hands to updateStudentSession
SessionData(a) == [f \in DOMAIN a \cap {"attendance", "homework", "quiz", "date"} |-> a[f]]
Operators == {1}                    \* the devices whose user marks; the others listen
SessionInputs == {a \in AttendanceInputs : a.session = Num(1)}
ScanCodes == {1}                    \* the n of a QR text "STUDENT:n"
ScanInputs == [studentId : Ids, student : StudentInputs]
\* the events whose handler on the server reads its payload
PayloadTypes == {"client-info", "data-update", "add-student", "mark-attendance", "qr-scan"}
\* datasets that lack a collection: students only; no attendanceLogs; no students
PartialBodies ==
    {[students |-> <<>>],
     [students |-> <<[id |-> Str(1), fullName |-> "a"]>>,
      studentRecords |-> <<[id |-> Str(1), fullName |-> "a",
                            sessions |-> [i \in 1..maxSessions |->
                                            [attendance |-> Present, homework |-> Complete,
                                             quiz |-> Num(8), date |-> Day(1)]]]>>,
      deletedStudents |-> <<>>],
     [studentRecords |-> <<>>, attendanceLogs |-> <<>>, deletedStudents |-> <<>>]}
\* what the attendance form holds when a button is pressed: status, homework, quiz score
FormInputs ==
    {[attendance |-> Present, homework |-> Complete, quiz |-> Num(8)],
     [attendance |-> Absent, homework |-> NotDone, quiz |-> Num(0)]}
SessionNumber == Num(1)             \* parseInt of the session picked in the form
\* session numbers handed to updateStudentSession: below the range, in it, above it
SessionNumbers == {Num(0), Num(1), Num(maxSessions + 1)}
\* the marks logged offline: two dates, one student
LocalLogs ==
    {[studentId |-> Str(1), studentName |-> "a", session |-> Num(1), attendance |-> Present,
      homework |-> Complete, quiz |-> Num(8), date |-> Day(1)],
     [studentId |-> Num(1), studentName |-> "a", session |-> Num(1), attendance |-> Absent,
      homework |-> NotDone, quiz |-> Num(0), date |-> Day(2)]}
FaultMarks == {a \in SessionInputs : a.studentId = Str(1)}
FaultScans == {q \in ScanInputs : q.studentId = Str(1) /\ q.student.id = Str(1) /\ q.student.fullName = "a"}

\* an array as a payload property, and a property that holds an object instead
Arr(seq) == [array |-> seq]
AnObject == [object |-> TRUE]
\* an ISO timestamp taken at clock reading n
Stamp(n) == <<"t", n>>
\* entries of a deletedStudents collection; every property that is present is truthy.
\* The shape deleteStudentTemporary writes; a direct student object; nested objects
\* without and with deletedAt, and one whose student has no id; blobs with an id under
\* another name, and with another name for fullName
FullTombstone ==
    [student |-> [id |-> Str(1), fullName |-> "a"], record |-> NoPayload, logs |-> <<>>,
     deletedAt |-> Stamp(0), deletedBy |-> "system"]
LegacyItems ==
    {FullTombstone,
     [id |-> Str(1), fullName |-> "a"],
     [student |-> [id |-> Num(1), fullName |-> "b"], logs |-> <<>>],
     [student |-> [id |-> Str(1), fullName |-> "a"], deletedAt |-> Stamp(0)],
     [student |-> [fullName |-> "a"], record |-> NoPayload],
     [studentId |-> Str(1), fullName |-> "a"],
     [id |-> Num(1), name |-> "b"]}
TombstoneLists ==
    {<<>>} \cup {<<a>> : a \in LegacyItems} \cup {<<a, b>> : a \in LegacyItems, b \in LegacyItems}
\* what an import file may hold as deletedStudents: nothing, a list of entries, an object
\* that is no array, a list with a null entry
DeletedVariants ==
    {<<>>} \cup {[deletedStudents |-> Arr(l)] : l \in TombstoneLists}
           \cup {[deletedStudents |-> AnObject],
                 [deletedStudents |-> Arr(<<NoPayload>>)],
                 [deletedStudents |-> Arr(<<FullTombstone, NoPayload>>)]}
ImportStudents == {<<>>, <<[id |-> Str(1), fullName |-> "a"]>>}
\* import payloads: well-formed ones, null, and ones in which one of the three required
\* collections is missing or is no array
ImportPayloads ==
    {[students |-> Arr(st), studentRecords |-> Arr(<<>>), attendanceLogs |-> Arr(<<>>)] @@ del :
        st \in ImportStudents, del \in DeletedVariants}
    \cup {NoPayload,
          [studentRecords |-> Arr(<<>>), attendanceLogs |-> Arr(<<>>)],
          [students |-> AnObject, studentRecords |-> Arr(<<>>), attendanceLogs |-> Arr(<<>>)],
          [students |-> Arr(<<>>), studentRecords |-> AnObject, attendanceLogs |-> Arr(<<>>)],
          [students |-> Arr(<<>>), studentRecords |-> Arr(<<>>),
           deletedStudents |-> Arr(<<FullTombstone>>)]}

VARIABLES
    appData,            \* server: the in-memory dataset
    connectedClients,   \* server: socket id -> ClientInfo
    link,               \* transport: link[c] iff c's socket is open
    connected,          \* client: SyncClient.connected
    dm,                 \* client: DataManager's four collections
    pendingAdd,         \* client: id of the student whose addStudent awaits its QR image
    toClient,           \* server -> client initial-data / data-sync in flight, per connection
    toServer,           \* client -> server messages in flight, per connection
    last,               \* what the server's latest handler saw, did and emitted
    lastCall,           \* what the latest DataManager call on a client saw and returned
    lastRecv,           \* what the latest handleDataSync on a client saw and did
    day,                \* environment: the date of the day, as toLocaleDateString gives it
    ops,                \* user and network events so far; also the reading of the clock
    up,                 \* server: the node process runs (no exception has left a handler)
    promises            \* client: the promises SyncClient.addStudent / markAttendance returned

vars == <<appData, connectedClients, link, connected, dm, pendingAdd, toClient, toServer,
          last, lastCall, lastRecv, day, ops, up, promises>>

\* a user event is counted; each specification bounds the count
Event == ops' = ops + 1

\* new Date() / Date.now(): no two events read the same instant
Now == ops

\* ------------------------------------------------------------------ helpers
Min(S) == CHOOSE x \in S : \A y \in S : x <= y

RECURSIVE SeqOf(_)
SeqOf(S) == IF S = {} THEN <<>> ELSE LET m == Min(S) IN <<m>> \o SeqOf(S \ {m})

Exists(seq, P(_)) == \E i \in 1..Len(seq) : P(seq[i])

\* Array.prototype.findIndex, 1-based; 0 when nothing matches
FindIndex(seq, P(_)) ==
    IF \E i \in 1..Len(seq) : P(seq[i])
    THEN Min({i \in 1..Len(seq) : P(seq[i])})
    ELSE 0

Count(seq, P(_)) == Cardinality({i \in 1..Len(seq) : P(seq[i])})

EmptyCollections ==
    [students |-> <<>>, studentRecords |-> <<>>, attendanceLogs |-> <<>>, deletedStudents |-> <<>>]

\* the four collections of a dataset, as the claims compare them
Collections(d) ==
    [students |-> d.students, studentRecords |-> d.studentRecords,
     attendanceLogs |-> d.attendanceLogs, deletedStudents |-> d.deletedStudents]

\* ---------------------------------------------------------------- emission
\* socket.emit, io.emit and socket.broadcast.emit, as the list of (socket, message)
\* pairs the server writes, in order.
SocketEmit(sock, m) == <<[to |-> sock, msg |-> m]>>

RECURSIVE EmitEach(_, _)
EmitEach(socks, m) ==
    IF socks = <<>> THEN <<>>
    ELSE <<[to |-> Head(socks), msg |-> m]>> \o EmitEach(Tail(socks), m)

IoEmit(registry, m) == EmitEach(SeqOf(DOMAIN registry), m)

BroadcastEmit(registry, sock, m) == EmitEach(SeqOf(DOMAIN registry \ {sock}), m)

RECURSIVE MsgsFor(_, _)
MsgsFor(sent, c) ==
    IF sent = <<>> THEN <<>>
    ELSE (IF Head(sent).to = c THEN <<Head(sent).msg>> ELSE <<>>) \o MsgsFor(Tail(sent), c)

\* The client's handlers of these events replace its collections; its handlers of every
\* other event only log or repaint the page.  Only these are kept in flight, and the
\* answers to an operation a promise of the client listens for; all that the server
\* writes is kept in last.sent.
Replacing == {"initial-data", "data-sync"}

IsReplacing(m) == m.type \in Replacing

\* the answers SyncClient.addStudent and markAttendance listen for
Replies == {"operation-success", "operation-error"}

IsReply(m) == m.type \in Replies

\* the client c has called the SyncClient method of this operation: from then on a
\* listener of its socket may be waiting for the operation's answers.  (No device of the
\* model both calls the method and writes the same event without it.)
Listens(c, operation) == \E i \in 1..Len(promises[c]) : promises[c][i].op = operation

Inbound(sent, c) ==
    SelectSeq(MsgsFor(sent, c),
              LAMBDA m : IsReplacing(m) \/ (IsReply(m) /\ Listens(c, m.operation)))

\* every open connection has room for what the handler writes to it
Room(sent, lk) == \A c \in Clients : lk[c] => Len(toClient[c]) + Len(Inbound(sent, c)) <= MaxInbox

\* a transport that kept what is written to a closed socket for the client's return
Deliver_Buffered(sent, lk) ==
    [c \in Clients |-> toClient[c] \o Inbound(sent, c)]

\* a message written to a socket whose client is gone is lost
Deliver(sent, lk) ==
    [c \in Clients |-> IF lk[c] THEN toClient[c] \o Inbound(sent, c) ELSE toClient[c]]

\* --------------------------------------------------------------------- Init
Init ==
    /\ appData = [students |-> <<>>, studentRecords |-> <<>>, attendanceLogs |-> <<>>,
                  deletedStudents |-> <<>>, lastUpdated |-> "start", version |-> "2.0.0"]
    /\ connectedClients = << >>
    /\ link = [c \in Clients |-> FALSE]
    /\ connected = [c \in Clients |-> FALSE]
    /\ dm = [c \in Clients |-> EmptyCollections]
    /\ pendingAdd = [c \in Clients |-> Undefined]
    /\ toClient = [c \in Clients |-> <<>>]
    /\ toServer = [c \in Clients |-> <<>>]
    /\ last = [op |-> "none"]
    /\ lastCall = [op |-> "none"]
    /\ lastRecv = [op |-> "none"]
    /\ day = Day(1)
    /\ ops = 0
    /\ up = TRUE
    /\ promises = [c \in Clients |-> <<>>]

\* ============================================================ DataManager
EmptySession == [attendance |-> JNull, homework |-> JNull, quiz |-> JNull, date |-> JNull]

\* the record that add-student (server.js) and createStudentRecord (DataManager) build:
\* slots 1..maxSessions, all empty
NewRecord(student) ==
    [id |-> student.id, fullName |-> student.fullName,
     sessions |-> [i \in 1..maxSessions |-> EmptySession]]

\* sessions[k] = v on a JavaScript object: the slot is added when it is not there
SetSlot(sessions, k, v) ==
    [i \in DOMAIN sessions \cup {k} |-> IF i = k THEN v ELSE sessions[i]]

\* the property name a session number indexes: 1 and "1" name the same slot
SlotKey(v) == v[2]

\* DataManager.getStudentById: Array.find with ==
GetStudentById(d, id) ==
    LET i == FindIndex(d.students, LAMBDA s : LooseEq(s.id, id))
    IN IF i = 0 THEN NotFound ELSE d.students[i]

\* DataManager.createStudentRecord: nothing is added when a record with == id exists
CreateStudentRecord(d, student) ==
    IF Exists(d.studentRecords, LAMBDA r : LooseEq(r.id, student.id))
    THEN d
    ELSE [d EXCEPT !.studentRecords = Append(@, NewRecord(student))]

Max(S) == CHOOSE x \in S : \A y \in S : x >= y

\* n.toString().padStart(4, '0'): a string of digits that is not the string "n"
Padded(n) == <<"p", n>>

\* DataManager.generateNextAvailableId: one more than the largest number an id ends in,
\* padded; "2024001" when there is no student.  (No id of the model has seven digits or
\* holds "2024", so the default format applies.)
GenerateNextAvailableId(d) ==
    IF d.students = <<>> THEN Str(2024001)
    ELSE Padded(Max({d.students[i].id[2] : i \in 1..Len(d.students)}) + 1)

\* DataManager.addStudent up to its await: the duplicate check, the push and the
\* companion record.  [ok, data, value]; the message of the Error thrown for a duplicate
\* is "DUPLICATE_ID|Student with ID ... already exists (...). Suggested next ID: ..."
DMAddStudent(d, sd) ==
    IF GetStudentById(d, sd.id) # NotFound
    THEN [ok |-> FALSE, data |-> d,
          value |-> [kind |-> "DUPLICATE_ID", id |-> sd.id, prefix |-> "DUPLICATE_ID",
                     suggested |-> GenerateNextAvailableId(d)]]
    ELSE LET student == [id |-> sd.id, fullName |-> sd.fullName, qrCodeUrl |-> "null"]
             d1 == [d EXCEPT !.students = Append(@, student)]
         IN [ok |-> TRUE, data |-> CreateStudentRecord(d1, student), value |-> student]

\* DataManager.generatePermanentQR after its await: the image is stored on the student
\* if the student is still there
StoreQR(d, id) ==
    LET i == FindIndex(d.students, LAMBDA s : LooseEq(s.id, id))
    IN IF i = 0 THEN d ELSE [d EXCEPT !.students[i].qrCodeUrl = "img"]

\* { ...old, ...sessionData, date: sessionData.date || today }
MergeSession(old, sessionData, today) ==
    [f \in {"attendance", "homework", "quiz", "date"} |->
        IF f = "date" THEN Or(Field(sessionData, "date"), today)
        ELSE IF Has(sessionData, f) THEN sessionData[f]
        ELSE Field(old, f)]

\* DataManager.updateStudentSession(studentId, sessionNumber, sessionData).  The record
\* is created (and saved) before the session number is checked.  [ok, data, value]
DMUpdateStudentSession(d, studentId, sessionNumber, sessionData, today) ==
    LET i == FindIndex(d.studentRecords, LAMBDA r : LooseEq(r.id, studentId))
        student == GetStudentById(d, studentId)
    IN IF i = 0 /\ student = NotFound
       THEN [ok |-> FALSE, data |-> d, value |-> [kind |-> "NOT_FOUND", id |-> studentId]]
       ELSE LET d1 == IF i = 0 THEN CreateStudentRecord(d, student) ELSE d
                j == FindIndex(d1.studentRecords, LAMBDA r : LooseEq(r.id, studentId))
                n == sessionNumber
            IN IF n # NaN /\ (n[2] < 1 \/ n[2] > maxSessions)
               THEN [ok |-> FALSE, data |-> d1, value |-> [kind |-> "BAD_SESSION", id |-> studentId]]
               ELSE [ok |-> TRUE,
                     data |-> [d1 EXCEPT !.studentRecords[j].sessions =
                                 SetSlot(@, SlotKey(n),
                                         MergeSession(IF SlotKey(n) \in DOMAIN @ THEN @[SlotKey(n)]
                                                      ELSE << >>,
                                                      sessionData, today))],
                     value |-> j]

\* the key test of DataManager.addAttendanceLog and restoreStudent
SameLogLoose(log, studentId, date, session) ==
    /\ LooseEq(log.studentId, studentId)
    /\ StrictEq(log.date, date)
    /\ LooseEq(log.session, session)

\* DataManager.addAttendanceLog(logData).  [ok, data, value]
DMAddAttendanceLog(d, logData, today, now, lid) ==
    IF \E f \in {"studentId", "studentName", "session", "attendance"} : ~Truthy(Field(logData, f))
    THEN [ok |-> FALSE, data |-> d, value |-> [kind |-> "REQUIRED"]]
    ELSE LET date == Or(Field(logData, "date"), today)
             i == FindIndex(d.attendanceLogs,
                            LAMBDA log : SameLogLoose(log, logData.studentId, date, logData.session))
             q == ParseInt(Field(logData, "quiz"))
             entry == [id |-> IF Truthy(Field(logData, "id")) THEN logData.id ELSE lid,
                       date |-> date,
                       studentId |-> logData.studentId,
                       studentName |-> logData.studentName,
                       session |-> ParseInt(logData.session),
                       attendance |-> logData.attendance,
                       homework |-> Or(Field(logData, "homework"), Complete),
                       quiz |-> Or(q, Num(0)),
                       createdAt |-> now,
                       updatedAt |-> now]
         IN IF i > 0
            THEN LET e2 == [entry EXCEPT !.id = d.attendanceLogs[i].id,
                                         !.createdAt = d.attendanceLogs[i].createdAt]
                 IN [ok |-> TRUE, data |-> [d EXCEPT !.attendanceLogs[i] = e2], value |-> e2]
            ELSE [ok |-> TRUE, data |-> [d EXCEPT !.attendanceLogs = <<entry>> \o @], value |-> entry]

\* Array.prototype.splice(i, 1) on a copy
RemoveAt(seq, i) == SubSeq(seq, 1, i - 1) \o SubSeq(seq, i + 1, Len(seq))

\* DataManager.deleteStudentTemporary(id): the first student with == id goes to a
\* tombstone with the first record and all the logs of that id; every record and log of
\* the id leaves the active data.  [ok, data, value]
DMDeleteStudentTemporary(d, id) ==
    LET i == FindIndex(d.students, LAMBDA st : LooseEq(st.id, id))
        ri == FindIndex(d.studentRecords, LAMBDA r : LooseEq(r.id, id))
        deletedData == [student |-> d.students[i],
                        record |-> IF ri = 0 THEN NotFound ELSE d.studentRecords[ri],
                        logs |-> SelectSeq(d.attendanceLogs,
                                           LAMBDA log : LooseEq(log.studentId, id))]
    IN IF i = 0
       THEN [ok |-> FALSE, data |-> d, value |-> [kind |-> "NOT_FOUND", id |-> id]]
       ELSE [ok |-> TRUE,
             data |-> [students |-> RemoveAt(d.students, i),
                       studentRecords |-> SelectSeq(d.studentRecords,
                                                    LAMBDA r : ~LooseEq(r.id, id)),
                       attendanceLogs |-> SelectSeq(d.attendanceLogs,
                                                    LAMBDA log : ~LooseEq(log.studentId, id)),
                       deletedStudents |-> Append(d.deletedStudents, deletedData)],
             value |-> deletedData]

\* restoreStudent's forEach over the tombstone's logs: a log whose key is already in the
\* active log replaces that entry, any other is pushed
RECURSIVE RestoreLogs(_, _)
RestoreLogs(active, logs) ==
    IF logs = <<>> THEN active
    ELSE LET log == Head(logs)
             i == FindIndex(active,
                            LAMBDA e : SameLogLoose(e, log.studentId, log.date, log.session))
         IN RestoreLogs(IF i > 0 THEN [active EXCEPT ![i] = log] ELSE Append(active, log),
                        Tail(logs))

\* a restore that does not look for an active student of the tombstone's id
DMRestoreStudent_NoCheck(d, id) ==
    LET i == FindIndex(d.deletedStudents, LAMBDA t : LooseEq(t.student.id, id))
        deletedData == d.deletedStudents[i]
        student == deletedData.student
        ri == FindIndex(d.studentRecords, LAMBDA r : LooseEq(r.id, student.id))
        d1 == [d EXCEPT !.deletedStudents = RemoveAt(@, i),
                        !.students = Append(@, student)]
        d2 == IF deletedData.record # NotFound
              THEN IF ri > 0 THEN [d1 EXCEPT !.studentRecords[ri] = deletedData.record]
                   ELSE [d1 EXCEPT !.studentRecords = Append(@, deletedData.record)]
              ELSE CreateStudentRecord(d1, student)
    IN IF i = 0
       THEN [ok |-> FALSE, data |-> d, value |-> [kind |-> "NOT_FOUND", id |-> id]]
       ELSE [ok |-> TRUE,
             data |-> [d2 EXCEPT !.attendanceLogs = RestoreLogs(@, deletedData.logs)],
             value |-> student]

\* DataManager.restoreStudent(id) on tombstones of the shape deleteStudentTemporary
\* makes: the first tombstone whose student has == id is taken out; it is put back, and
\* the call throws, when an active student has that id.  [ok, data, value]
DMRestoreStudent(d, id) ==
    LET i == FindIndex(d.deletedStudents, LAMBDA t : LooseEq(t.student.id, id))
        deletedData == d.deletedStudents[i]
        student == deletedData.student
        ri == FindIndex(d.studentRecords, LAMBDA r : LooseEq(r.id, student.id))
        d1 == [d EXCEPT !.deletedStudents = RemoveAt(@, i),
                        !.students = Append(@, student)]
        d2 == IF deletedData.record # NotFound
              THEN IF ri > 0 THEN [d1 EXCEPT !.studentRecords[ri] = deletedData.record]
                   ELSE [d1 EXCEPT !.studentRecords = Append(@, deletedData.record)]
              ELSE CreateStudentRecord(d1, student)
    IN IF i = 0
       THEN [ok |-> FALSE, data |-> d, value |-> [kind |-> "NOT_FOUND", id |-> id]]
       ELSE IF GetStudentById(d, student.id) # NotFound
       THEN [ok |-> FALSE, data |-> d, value |-> [kind |-> "ALREADY_ACTIVE", id |-> student.id]]
       ELSE [ok |-> TRUE,
             data |-> [d2 EXCEPT !.attendanceLogs = RestoreLogs(@, deletedData.logs)],
             value |-> student]

\* DataManager.deleteStudentPermanent(id): the first active student with == id and every
\* record and log of the id; only when no student is active, the first tombstone of the
\* id.  [ok, data, value]
DMDeleteStudentPermanent(d, id) ==
    LET i == FindIndex(d.students, LAMBDA st : LooseEq(st.id, id))
        ti == FindIndex(d.deletedStudents, LAMBDA t : LooseEq(t.student.id, id))
    IN IF i > 0
       THEN [ok |-> TRUE,
             data |-> [d EXCEPT !.students = RemoveAt(@, i),
                                !.studentRecords = SelectSeq(@, LAMBDA r : ~LooseEq(r.id, id)),
                                !.attendanceLogs =
                                    SelectSeq(@, LAMBDA log : ~LooseEq(log.studentId, id))],
             value |-> [student |-> d.students[i], source |-> "active"]]
       ELSE IF ti > 0
       THEN [ok |-> TRUE,
             data |-> [d EXCEPT !.deletedStudents = RemoveAt(@, ti)],
             value |-> [student |-> d.deletedStudents[ti].student, source |-> "deleted"]]
       ELSE [ok |-> FALSE, data |-> d, value |-> [kind |-> "NOT_FOUND", id |-> id]]

\* Array.isArray(v) of a payload property
IsArray(v) == Has(v, "array")

\* the callback of validateAndFixDeletedStudentsStructure's map on one entry: an entry
\* with student and deletedAt is returned as it is; a direct student (id and fullName) is
\* wrapped; otherwise item.student || item is kept if it has an id, with the entry's own
\* record, logs, deletedAt and deletedBy where it has them; else null
FixEntry(item, now) ==
    LET student == IF Has(item, "student") THEN item.student ELSE item
    IN IF Has(item, "student") /\ Has(item, "deletedAt") THEN item
       ELSE IF Has(item, "id") /\ Has(item, "fullName")
       THEN [student |-> item, record |-> NoPayload, logs |-> <<>>,
             deletedAt |-> Stamp(now), deletedBy |-> "imported"]
       ELSE IF Has(student, "id")
       THEN [student |-> student,
             record |-> IF Has(item, "record") THEN item.record ELSE NoPayload,
             logs |-> IF Has(item, "logs") THEN item.logs ELSE <<>>,
             deletedAt |-> IF Has(item, "deletedAt") THEN item.deletedAt ELSE Stamp(now),
             deletedBy |-> IF Has(item, "deletedBy") THEN item.deletedBy ELSE "imported"]
       ELSE NoPayload

RECURSIVE FixEach(_, _)
FixEach(items, now) ==
    IF items = <<>> THEN <<>> ELSE <<FixEntry(Head(items), now)>> \o FixEach(Tail(items), now)

\* DataManager.validateAndFixDeletedStudentsStructure on this.deletedStudents = deleted:
\* map, then filter(item => item !== null).  Reading .map of what is no array, or
\* .student of a null entry, throws a TypeError before anything is assigned.  [ok, value]
ValidateAndFix(deleted, now) ==
    IF ~IsArray(deleted) \/ Exists(deleted.array, LAMBDA item : item = NoPayload)
    THEN [ok |-> FALSE, value |-> "TypeError"]
    ELSE [ok |-> TRUE,
          value |-> SelectSeq(FixEach(deleted.array, now), LAMBDA e : e # NoPayload)]

\* DataManager.exportData: the four collections
ExportData(d) ==
    [students |-> d.students, studentRecords |-> d.studentRecords,
     attendanceLogs |-> d.attendanceLogs, deletedStudents |-> d.deletedStudents]

\* an import whose catch block puts back everything but the students
ImportRollback_KeepStudents(applied, backup) ==
    [students |-> applied.students, studentRecords |-> backup.studentRecords,
     attendanceLogs |-> backup.attendanceLogs, deletedStudents |-> backup.deletedStudents]

\* importData's catch block: the four collections are assigned from the backup
ImportRollback(applied, backup) ==
    [students |-> backup.students, studentRecords |-> backup.studentRecords,
     attendanceLogs |-> backup.attendanceLogs, deletedStudents |-> backup.deletedStudents]

\* DataManager.importData(data): null and a payload whose students, studentRecords or
\* attendanceLogs is no array are refused before anything is assigned; then the four
\* collections are assigned from the payload (deletedStudents || []) and the tombstones
\* are repaired; an exception there is caught, the backup is put back and
\* "Import failed" is thrown.  [ok, data, value]
DMImportData(d, data, now) ==
    LET missing == {f \in {"students", "studentRecords", "attendanceLogs"} :
                       ~(Has(data, f) /\ IsArray(data[f]))}
        backup == ExportData(d)
        deleted == IF Has(data, "deletedStudents") THEN data.deletedStudents ELSE Arr(<<>>)
        applied == [students |-> data.students.array,
                    studentRecords |-> data.studentRecords.array,
                    attendanceLogs |-> data.attendanceLogs.array,
                    deletedStudents |-> deleted]
        fix == ValidateAndFix(deleted, now)
    IN IF data = NoPayload
       THEN [ok |-> FALSE, data |-> d, value |-> [kind |-> "INVALID_FORMAT"]]
       ELSE IF missing # {}
       THEN [ok |-> FALSE, data |-> d, value |-> [kind |-> "INVALID_FIELD"]]
       ELSE IF fix.ok
       THEN [ok |-> TRUE, data |-> [applied EXCEPT !.deletedStudents = fix.value],
             value |-> [kind |-> "IMPORTED", deleted |-> Len(fix.value)]]
       ELSE [ok |-> FALSE, data |-> ImportRollback(applied, backup),
             value |-> [kind |-> "IMPORT_FAILED"]]

\* ============================================================ UIComponents
\* the two DataManager calls of UIComponents.markAttendance and of each round of
\* markAllOthersAbsent: updateStudentSession, then addAttendanceLog (which is not reached
\* when updateStudentSession throws).  All the calls of one handler read one instant.
MarkLocally(d, student, n, form, today, now) ==
    LET r1 == DMUpdateStudentSession(d, student.id, n, form @@ [date |-> today], today)
        r2 == DMAddAttendanceLog(r1.data,
                                 [studentId |-> student.id, studentName |-> student.fullName,
                                  session |-> n] @@ form,
                                 today, now, now)
    IN IF r1.ok THEN r2 ELSE r1

\* UIComponents.markAllOthersAbsent: the students, other than the one shown (===), that
\* have no log of this session today
ToMarkAbsent(d, current, n, today) ==
    SelectSeq(d.students,
              LAMBDA st : /\ ~StrictEq(st.id, current.id)
                          /\ ~Exists(d.attendanceLogs,
                                     LAMBDA log : /\ LooseEq(log.studentId, st.id)
                                                  /\ LooseEq(log.session, n)
                                                  /\ StrictEq(log.date, today)))

\* its forEach: each is marked absent, not-done, quiz 0; a failure is logged and skipped
RECURSIVE MarkEachAbsent(_, _, _, _, _)
MarkEachAbsent(d, students, n, today, now) ==
    IF students = <<>> THEN d
    ELSE MarkEachAbsent(MarkLocally(d, Head(students), n,
                                    [attendance |-> Absent, homework |-> NotDone,
                                     quiz |-> Num(0)], today, now).data,
                        Tail(students), n, today, now)

\* ============================================================ SyncClient
\* a client that kept the local students the message does not have
HandleDataSync_Merge(d, data) ==
    [students |-> SelectSeq(d.students,
                            LAMBDA s : ~Exists(data.students, LAMBDA t : t = s)) \o data.students,
     studentRecords |-> data.studentRecords,
     attendanceLogs |-> data.attendanceLogs,
     deletedStudents |-> data.deletedStudents]

\* a client that kept its own collection where the message has none
HandleDataSync_KeepAbsent(d, data) ==
    [students |-> IF Has(data, "students") THEN data.students ELSE d.students,
     studentRecords |-> IF Has(data, "studentRecords") THEN data.studentRecords
                        ELSE d.studentRecords,
     attendanceLogs |-> IF Has(data, "attendanceLogs") THEN data.attendanceLogs
                        ELSE d.attendanceLogs,
     deletedStudents |-> IF Has(data, "deletedStudents") THEN data.deletedStudents
                         ELSE d.deletedStudents]

\* SyncClient.handleDataSync on the DataManager d: each collection is the message's,
\* or [] when the message has none
HandleDataSync(d, data) ==
    [students |-> IF Has(data, "students") THEN data.students ELSE <<>>,
     studentRecords |-> IF Has(data, "studentRecords") THEN data.studentRecords ELSE <<>>,
     attendanceLogs |-> IF Has(data, "attendanceLogs") THEN data.attendanceLogs ELSE <<>>,
     deletedStudents |-> IF Has(data, "deletedStudents") THEN data.deletedStudents ELSE <<>>]

\* SyncClient.sendDataUpdate: the payload holds the four local collections and nothing else
DataUpdatePayload(d) ==
    [students |-> d.students, studentRecords |-> d.studentRecords,
     attendanceLogs |-> d.attendanceLogs, deletedStudents |-> d.deletedStudents]

\* SyncClient.sendQRScan(studentId): the payload is { studentId }
QRScanPayload(d, studentId) == [studentId |-> studentId]

\* SyncClient.getDeviceInfo
DeviceType(c) == IF c = 1 THEN "desktop" ELSE "mobile"

\* the promise SyncClient.addStudent or markAttendance returns: pending while its two
\* listeners are on the socket; rejected at once when the client is not connected
NewPromise(operation, arg, online) ==
    [op |-> operation, arg |-> arg,
     state |-> IF online THEN "pending" ELSE "rejected",
     value |-> IF online THEN NotFound ELSE [kind |-> "Not connected to server"]]

\* a client whose answer settles only the oldest promise that waits for the operation
Settle_OldestOnly(ps, m) ==
    LET waiting == {i \in 1..Len(ps) : ps[i].state = "pending" /\ ps[i].op = m.operation}
    IN [i \in 1..Len(ps) |->
          IF waiting # {} /\ i = Min(waiting)
          THEN [ps[i] EXCEPT !.state = IF m.type = "operation-success" THEN "resolved"
                                       ELSE "rejected",
                             !.value = IF m.type = "operation-success" THEN m.data ELSE m.error]
          ELSE ps[i]]

\* an operation-success or operation-error arrives: every successHandler (errorHandler)
\* on the socket runs, and each one whose operation the answer names takes its two
\* listeners off and resolves (rejects) its promise
Settle(ps, m) ==
    [i \in 1..Len(ps) |->
        IF ps[i].state = "pending" /\ ps[i].op = m.operation
        THEN [ps[i] EXCEPT !.state = IF m.type = "operation-success" THEN "resolved"
                                     ELSE "rejected",
                           !.value = IF m.type = "operation-success" THEN m.data ELSE m.error]
        ELSE ps[i]]

\* ================================================================ server.js
\* { ...data, lastUpdated: new Date().toISOString() }
SpreadWithStamp(data) ==
    IF data = NoPayload THEN [lastUpdated |-> "now"]
    ELSE [f \in DOMAIN data \cup {"lastUpdated"} |-> IF f = "lastUpdated" THEN "now" ELSE data[f]]

\* a server that kept its dataset when the push carries an older stamp
ApplyDataUpdate_RejectStale(old, data) ==
    IF Has(data, "lastUpdated") /\ data.lastUpdated = "stale" /\ old.lastUpdated = "now"
    THEN old
    ELSE SpreadWithStamp(data)

\* a server that kept the students it held and the push lacks
ApplyDataUpdate_KeepAdded(old, data) ==
    LET new == SpreadWithStamp(data)
    IN IF Has(new, "students") /\ Has(old, "students")
       THEN [new EXCEPT !.students =
                @ \o SelectSeq(old.students,
                               LAMBDA st : ~Exists(new.students, LAMBDA t : t.id = st.id))]
       ELSE new

\* data-update: the dataset the server holds afterwards
ApplyDataUpdate(old, data) == SpreadWithStamp(data)

\* a server that wrote the data-sync to every socket, the sender's included
DataUpdateEmits_ToAll(registry, sock, new) ==
    IoEmit(registry, [type |-> "data-sync", data |-> new])
    \o SocketEmit(sock, [type |-> "update-confirmed", success |-> TRUE])

\* data-update: what the server writes
DataUpdateEmits(registry, sock, new) ==
    BroadcastEmit(registry, sock, [type |-> "data-sync", data |-> new])
    \o SocketEmit(sock, [type |-> "update-confirmed", success |-> TRUE])

\* a server that counted the sockets that are still open
ClientsUpdate_CountsOpen(registry) ==
    [type |-> "clients-update", count |-> Cardinality({x \in DOMAIN registry : link[x]}),
     clients |-> registry]

ClientsUpdate(registry) ==
    [type |-> "clients-update", count |-> Cardinality(DOMAIN registry), clients |-> registry]

\* a server that sent the snapshot to every connection
ConnectionEmits_ToAll(registry, sock, data) ==
    IoEmit(registry, [type |-> "initial-data", data |-> data])
    \o IoEmit(registry, ClientsUpdate(registry))

\* connection: what the server writes
ConnectionEmits(registry, sock, data) ==
    SocketEmit(sock, [type |-> "initial-data", data |-> data])
    \o IoEmit(registry, ClientsUpdate(registry))

\* connection: the registry afterwards
Register(registry, sock) ==
    [x \in DOMAIN registry \cup {sock} |->
        IF x = sock THEN [id |-> sock, deviceType |-> "unknown", lastActivity |-> "connect"]
        ELSE registry[x]]

\* a server that let every add through
StudentExists_NoCheck(data, id) == FALSE

\* add-student: the duplicate test, Array.some with ===
StudentExists(data, id) == Exists(data.students, LAMBDA s : StrictEq(s.id, id))

\* a server on which the later of two adds of one id wins: the student and the record of
\* the id are replaced and the add succeeds
ServerAddStudent_LastWins(data, sd) ==
    [ok |-> TRUE,
     data |-> [data EXCEPT
                 !.students = Append(SelectSeq(@, LAMBDA s : ~StrictEq(s.id, sd.id)), sd),
                 !.studentRecords = Append(SelectSeq(@, LAMBDA r : ~StrictEq(r.id, sd.id)),
                                           NewRecord(sd)),
                 !.lastUpdated = "now"],
     value |-> sd]

\* add-student, the body of its try.  [ok, data, value]: a TypeError thrown where the
\* dataset has no students or no studentRecords array is caught and answered as an error,
\* with what the handler had already written to the dataset left in it
ServerAddStudent(data, sd) ==
    IF ~Has(data, "students")
    THEN [ok |-> FALSE, data |-> data, value |-> [kind |-> "TypeError"]]
    ELSE IF StudentExists(data, sd.id)
    THEN [ok |-> FALSE, data |-> data, value |-> [kind |-> "ALREADY_EXISTS", id |-> sd.id]]
    ELSE LET d1 == [data EXCEPT !.students = Append(@, sd), !.lastUpdated = "now"]
         IN IF ~Has(data, "studentRecords")
            THEN [ok |-> FALSE, data |-> d1, value |-> [kind |-> "TypeError"]]
            ELSE [ok |-> TRUE,
                  data |-> [d1 EXCEPT !.studentRecords = Append(@, NewRecord(sd))],
                  value |-> sd]

\* a server that answered the sender before it broadcast the dataset
AddStudentEmits_SuccessFirst(registry, sock, r) ==
    IF r.ok
    THEN SocketEmit(sock, [type |-> "operation-success", operation |-> "add-student",
                           data |-> r.value])
         \o IoEmit(registry, [type |-> "data-sync", data |-> r.data])
    ELSE SocketEmit(sock, [type |-> "operation-error", operation |-> "add-student",
                           error |-> r.value])

\* add-student: what the server writes
AddStudentEmits(registry, sock, r) ==
    IF r.ok
    THEN IoEmit(registry, [type |-> "data-sync", data |-> r.data])
         \o SocketEmit(sock, [type |-> "operation-success", operation |-> "add-student",
                              data |-> r.value])
    ELSE SocketEmit(sock, [type |-> "operation-error", operation |-> "add-student",
                           error |-> r.value])

\* mark-attendance: the session slot is assigned a whole new object
ServerSession(a, today) ==
    [attendance |-> Field(a, "attendance"), homework |-> Field(a, "homework"),
     quiz |-> Field(a, "quiz"), date |-> Or(Field(a, "date"), today)]

\* a server whose log key left the date out
SameLogStrict_NoDate(log, studentId, date, session) ==
    /\ StrictEq(log.studentId, studentId)
    /\ StrictEq(log.session, session)

\* mark-attendance: the key test, ===
SameLogStrict(log, studentId, date, session) ==
    /\ StrictEq(log.studentId, studentId)
    /\ StrictEq(log.date, date)
    /\ StrictEq(log.session, session)

\* mark-attendance, the body of its try.  [ok, data, value]: a TypeError thrown where the
\* dataset has no studentRecords or no attendanceLogs array is caught and answered as an
\* error, with the session slot the handler had already written left in the dataset
ServerMarkAttendance(data, a, today, now, lid) ==
    IF ~Has(data, "studentRecords")
    THEN [ok |-> FALSE, data |-> data, value |-> [kind |-> "TypeError"]]
    ELSE
    LET i == FindIndex(data.studentRecords, LAMBDA r : StrictEq(r.id, Field(a, "studentId")))
        d1 == IF i > 0
              THEN [data EXCEPT !.studentRecords[i].sessions =
                                   SetSlot(@, SlotKey(a.session), ServerSession(a, today))]
              ELSE data
        entry == [id |-> lid,
                  date |-> Or(Field(a, "date"), today),
                  studentId |-> Field(a, "studentId"),
                  studentName |-> Field(a, "studentName"),
                  session |-> ParseInt(Field(a, "session")),
                  attendance |-> Field(a, "attendance"),
                  homework |-> Field(a, "homework"),
                  quiz |-> ParseInt(Field(a, "quiz")),
                  createdAt |-> now,
                  updatedAt |-> now]
        j == FindIndex(d1.attendanceLogs,
                       LAMBDA log : SameLogStrict(log, entry.studentId, entry.date, entry.session))
    IN IF ~Has(d1, "attendanceLogs")
       THEN [ok |-> FALSE, data |-> d1, value |-> [kind |-> "TypeError"]]
       ELSE IF j > 0
       THEN LET e2 == [entry EXCEPT !.id = d1.attendanceLogs[j].id,
                                    !.createdAt = d1.attendanceLogs[j].createdAt]
            IN [ok |-> TRUE,
                data |-> [d1 EXCEPT !.attendanceLogs[j] = e2, !.lastUpdated = "now"],
                value |-> e2]
       ELSE [ok |-> TRUE,
             data |-> [d1 EXCEPT !.attendanceLogs = <<entry>> \o @, !.lastUpdated = "now"],
             value |-> entry]

\* mark-attendance: what the server writes
MarkAttendanceEmits(registry, sock, r) ==
    IF r.ok
    THEN IoEmit(registry, [type |-> "data-sync", data |-> r.data])
         \o SocketEmit(sock, [type |-> "operation-success", operation |-> "mark-attendance",
                              data |-> r.value])
    ELSE SocketEmit(sock, [type |-> "operation-error", operation |-> "mark-attendance",
                           error |-> r.value])

\* a server that adopted the copy as it came
Adopted_Untagged(student) == student

\* { ...data.student, syncedFromClient: true }
Adopted(student) ==
    [f \in DOMAIN student \cup {"syncedFromClient"} |->
        IF f = "syncedFromClient" THEN TRUE ELSE student[f]]

\* qr-scan.  [ok, data, value]: value is the student answered, ok is false when none is.
\* The handler has no try: where the dataset has no students or no studentRecords array
\* the TypeError leaves the handler (threw), after what it had already written
ServerQRScan(data, q) ==
    IF ~Has(data, "students")
    THEN [ok |-> FALSE, data |-> data, value |-> [kind |-> "TypeError"], threw |-> TRUE]
    ELSE
    LET i == FindIndex(data.students, LAMBDA s : StrictEq(s.id, q.studentId))
    IN IF i > 0 THEN [ok |-> TRUE, data |-> data, value |-> data.students[i]]
       ELSE IF Has(q, "student")
       THEN LET student == Adopted(q.student)
                d1 == [data EXCEPT !.students = Append(@, student)]
                d2 == IF Exists(d1.studentRecords, LAMBDA r : StrictEq(r.id, student.id))
                      THEN d1
                      ELSE [d1 EXCEPT !.studentRecords =
                               Append(@, [id |-> student.id, fullName |-> student.fullName,
                                          sessions |-> << >>])]
            IN IF ~Has(d1, "studentRecords")
               THEN [ok |-> FALSE, data |-> d1, value |-> [kind |-> "TypeError"], threw |-> TRUE]
               ELSE [ok |-> TRUE, data |-> d2, value |-> student]
       ELSE [ok |-> FALSE, data |-> data, value |-> [kind |-> "Student not found"]]

\* a server that told every socket of a scan, failed or not
QRScanEmits_Announce(registry, sock, r) ==
    IF r.ok
    THEN SocketEmit(sock, [type |-> "qr-scan-result", success |-> TRUE, student |-> r.value])
         \o IoEmit(registry, [type |-> "student-scanned", studentId |-> r.value.id,
                              studentName |-> r.value.fullName])
    ELSE SocketEmit(sock, [type |-> "qr-scan-result", success |-> FALSE, error |-> r.value])
         \o IoEmit(registry, [type |-> "student-scanned", studentId |-> Undefined,
                              studentName |-> Undefined])

\* qr-scan: what the server writes
QRScanEmits(registry, sock, r) ==
    IF r.ok
    THEN SocketEmit(sock, [type |-> "qr-scan-result", success |-> TRUE, student |-> r.value])
         \o IoEmit(registry, [type |-> "student-scanned", studentId |-> r.value.id,
                              studentName |-> r.value.fullName])
    ELSE SocketEmit(sock, [type |-> "qr-scan-result", success |-> FALSE, error |-> r.value])

\* ================================================================== actions
\* ------------------------------------------------------- connection lifecycle
\* io.on('connection'): register, initial-data to the new socket, clients-update to all.
\* The client's 'connect' handler runs when the handshake completes: connected is set
\* and client-info is the first message on the new socket.  A client opens a new socket
\* only after the server has seen the old one close.
Connect(c) ==
    /\ up
    /\ ~link[c]
    /\ c \notin DOMAIN connectedClients
    /\ toServer[c] = <<>>
    /\ LET registry == Register(connectedClients, c)
           lk == [link EXCEPT ![c] = TRUE]
           sent == ConnectionEmits(registry, c, appData)
       IN /\ Room(sent, lk)
          /\ connectedClients' = registry
          /\ link' = lk
          /\ toClient' = Deliver(sent, lk)
          /\ last' = [op |-> "connection", client |-> c, pre |-> appData, post |-> appData,
                      registry |-> registry, sent |-> sent]
    /\ connected' = [connected EXCEPT ![c] = TRUE]
    /\ toServer' = [toServer EXCEPT
                       ![c] = <<[type |-> "client-info", info |-> [deviceType |-> DeviceType(c)]]>>]
    /\ UNCHANGED <<appData, dm, pendingAdd, lastCall, lastRecv, day, ops, up, promises>>

\* the socket closes (page unload, SyncClient.disconnect, or the network): the client's
\* 'disconnect' handler clears connected; what the server had in flight to it is lost;
\* the server sees 'disconnect' after what the client had already sent.
Disconnect(c) ==
    /\ Event
    /\ link[c]
    /\ link' = [link EXCEPT ![c] = FALSE]
    /\ connected' = [connected EXCEPT ![c] = FALSE]
    /\ toClient' = [toClient EXCEPT ![c] = <<>>]
    /\ toServer' = [toServer EXCEPT ![c] = Append(@, [type |-> "disconnect"])]
    /\ UNCHANGED <<appData, connectedClients, dm, pendingAdd, last, lastCall, lastRecv, day, up, promises>>

\* what every server handler does with its result: the dataset, the registry, the
\* messages written, and the message consumed
ServerStep(c, op, m, data, registry, sent, draws) ==
    /\ up
    /\ Room(sent, link)
    /\ appData' = data
    /\ connectedClients' = registry
    /\ toClient' = Deliver(sent, link)
    /\ toServer' = [toServer EXCEPT ![c] = Tail(@)]
    /\ last' = [op |-> op, client |-> c, msg |-> m, pre |-> appData, post |-> data,
                registry |-> registry, sent |-> sent, draws |-> draws]
    /\ UNCHANGED <<link, connected, dm, pendingAdd, lastCall, lastRecv, ops, day, up, promises>>

\* an exception leaves a handler: nothing catches it, the node process ends, every socket
\* closes with it and what was in flight is lost
ServerThrow(c, op, m, data) ==
    /\ up
    /\ up' = FALSE
    /\ appData' = data
    /\ link' = [x \in Clients |-> FALSE]
    /\ connected' = [x \in Clients |-> FALSE]
    /\ toClient' = [x \in Clients |-> <<>>]
    /\ toServer' = [x \in Clients |-> <<>>]
    /\ last' = [op |-> op, client |-> c, msg |-> m, pre |-> appData, post |-> data,
                registry |-> connectedClients, sent |-> <<>>, draws |-> [threw |-> TRUE]]
    /\ UNCHANGED <<connectedClients, dm, pendingAdd, lastCall, lastRecv, ops, day, promises>>

Pending(c, type) == toServer[c] # <<>> /\ Head(toServer[c]).type = type

\* socket.on('disconnect')
OnDisconnect(c) ==
    /\ Pending(c, "disconnect")
    /\ LET registry == [x \in DOMAIN connectedClients \ {c} |-> connectedClients[x]]
       IN ServerStep(c, "disconnect", Head(toServer[c]), appData, registry,
                     IoEmit(registry, ClientsUpdate(registry)), << >>)

\* socket.on('client-info'): info.deviceType is read outside any try
OnClientInfo(c) ==
    /\ Pending(c, "client-info")
    /\ IF Head(toServer[c]).info = NoPayload
       THEN ServerThrow(c, "client-info", Head(toServer[c]), appData)
       ELSE LET registry == [connectedClients EXCEPT
                                ![c].deviceType = Head(toServer[c]).info.deviceType]
            IN ServerStep(c, "client-info", Head(toServer[c]), appData, registry,
                          IoEmit(registry, ClientsUpdate(registry)), << >>)

\* socket.on('data-update')
OnDataUpdate(c) ==
    /\ Pending(c, "data-update")
    /\ LET m == Head(toServer[c])
           new == ApplyDataUpdate(appData, m.data)
       IN ServerStep(c, "data-update", m, new, connectedClients,
                     DataUpdateEmits(connectedClients, c, new), << >>)

\* socket.on('add-student')
OnAddStudent(c) ==
    /\ Pending(c, "add-student")
    /\ LET m == Head(toServer[c])
           r == ServerAddStudent(appData, m.student)
       IN IF m.student = NoPayload
          THEN ServerThrow(c, "add-student", m, appData)
          ELSE ServerStep(c, "add-student", m, r.data, connectedClients,
                          AddStudentEmits(connectedClients, c, r), << >>)

\* socket.on('mark-attendance'); the fresh log id is Date.now() plus a random fraction
OnMarkAttendance(c) ==
    /\ Pending(c, "mark-attendance")
    /\ LET m == Head(toServer[c])
           r == ServerMarkAttendance(appData, m.attendance, day, Now, Now)
       IN IF m.attendance = NoPayload
          THEN ServerThrow(c, "mark-attendance", m, appData)
          ELSE ServerStep(c, "mark-attendance", m, r.data, connectedClients,
                          MarkAttendanceEmits(connectedClients, c, r),
                          [today |-> day, now |-> Now, lid |-> Now])

\* socket.on('qr-scan')
OnQRScan(c) ==
    /\ Pending(c, "qr-scan")
    /\ LET m == Head(toServer[c])
           r == ServerQRScan(appData, m.scan)
       IN IF m.scan = NoPayload
          THEN ServerThrow(c, "qr-scan", m, appData)
          ELSE IF Has(r, "threw")
          THEN ServerThrow(c, "qr-scan", m, r.data)
          ELSE ServerStep(c, "qr-scan", m, r.data, connectedClients,
                          QRScanEmits(connectedClients, c, r), << >>)

\* a server that announced the registry on every heartbeat
OnHeartbeat_Announces(c) ==
    /\ Pending(c, "heartbeat")
    /\ LET registry == IF c \in DOMAIN connectedClients
                       THEN [connectedClients EXCEPT ![c].lastActivity = "heartbeat"]
                       ELSE connectedClients
       IN ServerStep(c, "heartbeat", Head(toServer[c]), appData, registry,
                     IoEmit(registry, ClientsUpdate(registry)), << >>)

\* socket.on('heartbeat'): the registered client's lastActivity is stamped
OnHeartbeat(c) ==
    /\ Pending(c, "heartbeat")
    /\ LET registry == IF c \in DOMAIN connectedClients
                       THEN [connectedClients EXCEPT ![c].lastActivity = "heartbeat"]
                       ELSE connectedClients
       IN ServerStep(c, "heartbeat", Head(toServer[c]), appData, registry, <<>>, << >>)

\* ------------------------------------------------------------ client handlers
\* socket.emit(type, ...) on the client
ClientEmit(c, m) ==
    /\ connected[c]
    /\ Len(toServer[c]) < MaxOutbox
    /\ toServer' = [toServer EXCEPT ![c] = Append(@, m)]

\* SyncClient.setupEventHandlers: the handler of the next initial-data or data-sync
ClientReceive(c) ==
    /\ toClient[c] # <<>>
    /\ IsReplacing(Head(toClient[c]))
    /\ LET m == Head(toClient[c])
           d == HandleDataSync(dm[c], m.data)
       IN /\ dm' = [dm EXCEPT ![c] = d]
          /\ lastRecv' = [op |-> m.type, client |-> c, msg |-> m, pre |-> dm[c], post |-> d]
    /\ toClient' = [toClient EXCEPT ![c] = Tail(@)]
    /\ UNCHANGED <<appData, connectedClients, link, connected, pendingAdd, toServer, last,
                   lastCall, ops, day, up, promises>>

\* DataManager.addStudent (app bundle) up to the await of the QR image
ClientAddStudentBegin(c, sd) ==
    /\ Event
    /\ pendingAdd[c] = Undefined
    /\ LET r == DMAddStudent(dm[c], sd)
       IN /\ dm' = [dm EXCEPT ![c] = r.data]
          /\ pendingAdd' = [pendingAdd EXCEPT ![c] = IF r.ok THEN sd.id ELSE Undefined]
          /\ lastCall' = [op |-> "addStudent", client |-> c, arg |-> sd, pre |-> dm[c],
                          post |-> r.data, ok |-> r.ok, value |-> r.value,
                          online |-> connected[c]]
    /\ UNCHANGED <<appData, connectedClients, link, connected, toClient, toServer, last, lastRecv, day,
                   up, promises>>

\* DataManager.addStudent after the await: the QR image is stored, and the whole local
\* dataset is pushed when the client is connected
ClientAddStudentFinish(c) ==
    /\ pendingAdd[c] # Undefined
    /\ LET d == StoreQR(dm[c], pendingAdd[c])
       IN /\ dm' = [dm EXCEPT ![c] = d]
          /\ IF connected[c]
             THEN ClientEmit(c, [type |-> "data-update", data |-> DataUpdatePayload(d)])
             ELSE toServer' = toServer
    /\ pendingAdd' = [pendingAdd EXCEPT ![c] = Undefined]
    /\ UNCHANGED <<appData, connectedClients, link, connected, toClient, last, lastCall,
                   lastRecv, ops, day, up, promises>>

\* a peer pushes back a snapshot it fetched earlier (GET /api/data), stamp included
RawDataUpdate(c) ==
    /\ Event
    /\ ClientEmit(c, [type |-> "data-update",
                      data |-> [f \in DOMAIN dm[c] \cup {"lastUpdated"} |->
                                  IF f = "lastUpdated" THEN "stale" ELSE dm[c][f]]])
    /\ UNCHANGED <<appData, connectedClients, link, connected, dm, pendingAdd, toClient,
                   last, lastCall, lastRecv, day, up, promises>>

\* SyncClient.addStudent(studentData): the targeted add
EmitAddStudent(c, sd) ==
    /\ Event
    /\ ClientEmit(c, [type |-> "add-student", student |-> sd])
    /\ UNCHANGED <<appData, connectedClients, link, connected, dm, pendingAdd, toClient,
                   last, lastCall, lastRecv, day, up, promises>>

\* SyncClient.markAttendance(attendanceData): the targeted mark
EmitMarkAttendance(c, a) ==
    /\ Event
    /\ ClientEmit(c, [type |-> "mark-attendance", attendance |-> a])
    /\ UNCHANGED <<appData, connectedClients, link, connected, dm, pendingAdd, toClient,
                   last, lastCall, lastRecv, day, up, promises>>

\* the handlers of operation-success and operation-error on the client's socket
ClientReply(c) ==
    /\ toClient[c] # <<>>
    /\ IsReply(Head(toClient[c]))
    /\ LET m == Head(toClient[c])
       IN /\ promises' = [promises EXCEPT ![c] = Settle(@, m)]
          /\ lastRecv' = [op |-> m.type, client |-> c, msg |-> m, pre |-> dm[c], post |-> dm[c]]
    /\ toClient' = [toClient EXCEPT ![c] = Tail(@)]
    /\ UNCHANGED <<appData, connectedClients, link, connected, dm, pendingAdd, toServer, last,
                   lastCall, ops, day, up>>

\* SyncClient.addStudent(studentData) called for its promise
CallAddStudent(c, sd) ==
    /\ Event
    /\ IF connected[c]
       THEN ClientEmit(c, [type |-> "add-student", student |-> sd])
       ELSE toServer' = toServer
    /\ promises' = [promises EXCEPT ![c] = Append(@, NewPromise("add-student", sd, connected[c]))]
    /\ UNCHANGED <<appData, connectedClients, link, connected, dm, pendingAdd, toClient,
                   last, lastCall, lastRecv, day, up>>

\* SyncClient.markAttendance(attendanceData) called for its promise
CallMarkAttendance(c, a) ==
    /\ Event
    /\ IF connected[c]
       THEN ClientEmit(c, [type |-> "mark-attendance", attendance |-> a])
       ELSE toServer' = toServer
    /\ promises' = [promises EXCEPT
                       ![c] = Append(@, NewPromise("mark-attendance", a, connected[c]))]
    /\ UNCHANGED <<appData, connectedClients, link, connected, dm, pendingAdd, toClient,
                   last, lastCall, lastRecv, day, up>>

\* DataManager.updateStudentSession on the client's local dataset
ClientUpdateSession(c, studentId, sessionNumber, sessionData) ==
    /\ Event
    /\ LET r == DMUpdateStudentSession(dm[c], studentId, sessionNumber, sessionData, day)
       IN /\ dm' = [dm EXCEPT ![c] = r.data]
          /\ lastCall' = [op |-> "updateStudentSession", client |-> c,
                          arg |-> [studentId |-> studentId, sessionNumber |-> sessionNumber,
                                   sessionData |-> sessionData],
                          pre |-> dm[c], post |-> r.data, ok |-> r.ok, value |-> r.value,
                          today |-> day]
    /\ UNCHANGED <<appData, connectedClients, link, connected, pendingAdd, toClient, toServer,
                   last, lastRecv, day, up, promises>>

\* DataManager.addAttendanceLog on the client's local dataset
ClientAddLog(c, logData) ==
    /\ Event
    /\ LET r == DMAddAttendanceLog(dm[c], logData, day, Now, Now)
       IN /\ dm' = [dm EXCEPT ![c] = r.data]
          /\ lastCall' = [op |-> "addAttendanceLog", client |-> c, arg |-> logData,
                          pre |-> dm[c], post |-> r.data, ok |-> r.ok, value |-> r.value,
                          today |-> day, now |-> Now, lid |-> Now]
    /\ UNCHANGED <<appData, connectedClients, link, connected, pendingAdd, toClient, toServer,
                   last, lastRecv, day, up, promises>>

\* what a call that follows keeps of the call before it
Before(call) ==
    IF call.op \in {"deleteStudentTemporary", "restoreStudent"}
    THEN [op |-> call.op, client |-> call.client, arg |-> call.arg, pre |-> call.pre,
          post |-> call.post, ok |-> call.ok, value |-> call.value]
    ELSE [op |-> call.op]

\* DataManager.deleteStudentTemporary, restoreStudent and deleteStudentPermanent on the
\* client's local dataset, as UIComponents calls them: nothing is sent to the server
ClientDeleteTemporary(c, id) ==
    /\ Event
    /\ LET r == DMDeleteStudentTemporary(dm[c], id)
       IN /\ dm' = [dm EXCEPT ![c] = r.data]
          /\ lastCall' = [op |-> "deleteStudentTemporary", client |-> c, arg |-> id,
                          pre |-> dm[c], post |-> r.data, ok |-> r.ok, value |-> r.value,
                          online |-> connected[c]]
    /\ UNCHANGED <<appData, connectedClients, link, connected, pendingAdd, toClient, toServer,
                   last, lastRecv, day, up, promises>>

ClientRestore(c, id) ==
    /\ Event
    /\ LET r == DMRestoreStudent(dm[c], id)
       IN /\ dm' = [dm EXCEPT ![c] = r.data]
          /\ lastCall' = [op |-> "restoreStudent", client |-> c, arg |-> id,
                          pre |-> dm[c], post |-> r.data, ok |-> r.ok, value |-> r.value,
                          online |-> connected[c], after |-> Before(lastCall)]
    /\ UNCHANGED <<appData, connectedClients, link, connected, pendingAdd, toClient, toServer,
                   last, lastRecv, day, up, promises>>

ClientDeletePermanent(c, id) ==
    /\ Event
    /\ LET r == DMDeleteStudentPermanent(dm[c], id)
       IN /\ dm' = [dm EXCEPT ![c] = r.data]
          /\ lastCall' = [op |-> "deleteStudentPermanent", client |-> c, arg |-> id,
                          pre |-> dm[c], post |-> r.data, ok |-> r.ok, value |-> r.value,
                          online |-> connected[c]]
    /\ UNCHANGED <<appData, connectedClients, link, connected, pendingAdd, toClient, toServer,
                   last, lastRecv, day, up, promises>>

\* DataManager.importData on the client's local dataset
ClientImport(c, data) ==
    /\ Event
    /\ LET r == DMImportData(dm[c], data, Now)
       IN /\ dm' = [dm EXCEPT ![c] = r.data]
          /\ lastCall' = [op |-> "importData", client |-> c, arg |-> data,
                          pre |-> dm[c], post |-> r.data, ok |-> r.ok, value |-> r.value,
                          now |-> Now]
    /\ UNCHANGED <<appData, connectedClients, link, connected, pendingAdd, toClient, toServer,
                   last, lastRecv, day, up, promises>>

\* UIComponents.showDeletedStudents: the tombstones are repaired before they are listed
ClientRepair(c) ==
    /\ Event
    /\ LET r == ValidateAndFix(Arr(dm[c].deletedStudents), Now)
       IN /\ r.ok
          /\ dm' = [dm EXCEPT ![c].deletedStudents = r.value]
          /\ lastCall' = [op |-> "validateAndFixDeletedStudentsStructure", client |-> c,
                          pre |-> dm[c], post |-> [dm[c] EXCEPT !.deletedStudents = r.value],
                          now |-> Now]
    /\ UNCHANGED <<appData, connectedClients, link, connected, pendingAdd, toClient, toServer,
                   last, lastRecv, day, up, promises>>

\* UIComponents.markAttendance(status) with the student at position i shown: the session
\* record and the log are written locally, and the targeted mark is sent when the client
\* is connected
UIMarkAttendance(c, i, form) ==
    /\ Event
    /\ i \in 1..Len(dm[c].students)
    /\ LET student == dm[c].students[i]
           r == MarkLocally(dm[c], student, SessionNumber, form, day, Now)
       IN /\ dm' = [dm EXCEPT ![c] = r.data]
          /\ IF r.ok /\ connected[c]
             THEN ClientEmit(c, [type |-> "mark-attendance",
                                 attendance |-> [studentId |-> student.id,
                                                 studentName |-> student.fullName,
                                                 session |-> SessionNumber,
                                                 date |-> day] @@ form])
             ELSE toServer' = toServer
          /\ lastCall' = [op |-> "markAttendance", client |-> c,
                          arg |-> [student |-> student, form |-> form],
                          pre |-> dm[c], post |-> r.data, ok |-> r.ok, value |-> r.value,
                          online |-> connected[c]]
    /\ UNCHANGED <<appData, connectedClients, link, connected, pendingAdd, toClient,
                   last, lastRecv, day, up, promises>>

\* UIComponents.markAllOthersAbsent with the student at position i shown: local only
UIMarkAllOthersAbsent(c, i) ==
    /\ Event
    /\ i \in 1..Len(dm[c].students)
    /\ LET student == dm[c].students[i]
           others == ToMarkAbsent(dm[c], student, SessionNumber, day)
           d == MarkEachAbsent(dm[c], others, SessionNumber, day, Now)
       IN /\ others # <<>>
          /\ dm' = [dm EXCEPT ![c] = d]
          /\ lastCall' = [op |-> "markAllOthersAbsent", client |-> c,
                          arg |-> [student |-> student], pre |-> dm[c], post |-> d,
                          ok |-> TRUE, value |-> Len(others), online |-> connected[c]]
    /\ UNCHANGED <<appData, connectedClients, link, connected, pendingAdd, toClient, toServer,
                   last, lastRecv, day, up, promises>>

\* QRHandler.handleQRScan on the text "STUDENT:n": the id is the text after the colon, a
\* string; found locally or not, the scan goes to the server when the client is connected
ClientScan(c, n) ==
    /\ Event
    /\ LET studentId == Str(n)
           student == GetStudentById(dm[c], studentId)
       IN /\ IF connected[c]
             THEN ClientEmit(c, [type |-> "qr-scan", scan |-> QRScanPayload(dm[c], studentId)])
             ELSE toServer' = toServer
          /\ lastCall' = [op |-> "handleQRScan", client |-> c, arg |-> studentId,
                          found |-> student, online |-> connected[c],
                          idle |-> pendingAdd[c] = Undefined,
                          after |-> IF lastCall.op = "addStudent"
                                    THEN [op |-> "addStudent", client |-> lastCall.client,
                                          arg |-> lastCall.arg, ok |-> lastCall.ok,
                                          online |-> lastCall.online]
                                    ELSE [op |-> lastCall.op]]
    /\ UNCHANGED <<appData, connectedClients, link, connected, dm, pendingAdd, toClient,
                   last, lastRecv, day, up, promises>>

\* a peer writes a qr-scan that carries its copy of a student
RawQRScan(c, q) ==
    /\ Event
    /\ ClientEmit(c, [type |-> "qr-scan", scan |-> q])
    /\ UNCHANGED <<appData, connectedClients, link, connected, dm, pendingAdd, toClient,
                   last, lastCall, lastRecv, day, up, promises>>

\* a peer writes an event with a null payload
NullMessage(type) ==
    IF type = "client-info" THEN [type |-> type, info |-> NoPayload]
    ELSE IF type = "data-update" THEN [type |-> type, data |-> NoPayload]
    ELSE IF type = "add-student" THEN [type |-> type, student |-> NoPayload]
    ELSE IF type = "mark-attendance" THEN [type |-> type, attendance |-> NoPayload]
    ELSE [type |-> type, scan |-> NoPayload]

RawNull(c, type) ==
    /\ Event
    /\ ClientEmit(c, NullMessage(type))
    /\ UNCHANGED <<appData, connectedClients, link, connected, dm, pendingAdd, toClient,
                   last, lastCall, lastRecv, day, up, promises>>

\* a peer pushes a dataset that lacks a collection
RawPartialUpdate(c, body) ==
    /\ Event
    /\ ClientEmit(c, [type |-> "data-update", data |-> body])
    /\ UNCHANGED <<appData, connectedClients, link, connected, dm, pendingAdd, toClient,
                   last, lastCall, lastRecv, day, up, promises>>

\* SyncClient.startHeartbeat: the timer fires on a connected client
ClientHeartbeat(c) ==
    /\ Event
    /\ ClientEmit(c, [type |-> "heartbeat"])
    /\ UNCHANGED <<appData, connectedClients, link, connected, dm, pendingAdd, toClient,
                   last, lastCall, lastRecv, day, up, promises>>

\* the day ends
Midnight ==
    /\ day = Day(1)
    /\ day' = Day(2)
    /\ UNCHANGED <<appData, connectedClients, link, connected, dm, pendingAdd, toClient,
                   toServer, last, lastCall, lastRecv, ops, up, promises>>

\* ------------------------------------------------------------------- REST
\* POST /api/import: a body without a students array is refused (400); any other body
\* replaces the dataset and goes to every socket, and then the answer is built: 200 with
\* the three lengths, or 500 when reading the length of a collection the body lacks throws
RestImport(body) ==
    /\ Event
    /\ up
    /\ LET accepted == Has(body, "students")
           new == IF accepted THEN SpreadWithStamp(body) ELSE appData
           sent == IF accepted
                   THEN IoEmit(connectedClients, [type |-> "data-sync", data |-> new])
                   ELSE <<>>
           status == IF ~accepted THEN 400
                     ELSE IF Has(new, "studentRecords") /\ Has(new, "attendanceLogs") THEN 200
                     ELSE 500
       IN /\ Room(sent, link)
          /\ appData' = new
          /\ toClient' = Deliver(sent, link)
          /\ last' = [op |-> "import", client |-> 0, msg |-> body, pre |-> appData,
                      post |-> new, registry |-> connectedClients, sent |-> sent,
                      draws |-> [status |-> status]]
    /\ UNCHANGED <<connectedClients, link, connected, dm, pendingAdd, toServer, lastCall,
                   lastRecv, day, up, promises>>

\* the bodies posted: a client's exported collections, or a file that is not a dataset
ImportBodies == {DataUpdatePayload(dm[c]) : c \in Clients} \cup {[version |-> "2.0.0"]}

\* ------------------------------------------------------------ specifications
\* whole-dataset synchronisation
Next ==
    \/ \E c \in Clients : Connect(c)
    \/ \E c \in Clients : ops < MaxOps /\ Disconnect(c)
    \/ \E c \in Clients : OnDisconnect(c)
    \/ \E c \in Clients : OnClientInfo(c)
    \/ \E c \in Clients : ClientReceive(c)
    \/ \E c \in Clients, sd \in StudentInputs : ops < MaxOps /\ ClientAddStudentBegin(c, sd)
    \/ \E c \in Clients : ClientAddStudentFinish(c)
    \/ \E c \in Clients : ops < MaxOps /\ RawDataUpdate(c)
    \/ \E c \in Clients : OnDataUpdate(c)

Spec == Init /\ [][Next]_vars

\* adding a student: the targeted add on the server, DataManager.addStudent on a client
NextAdd ==
    \/ \E c \in Clients : Connect(c)
    \/ \E c \in Clients : OnClientInfo(c)
    \/ \E c \in Clients : ClientReceive(c)
    \/ \E c \in Clients, sd \in StudentInputs : ops < MaxOps /\ EmitAddStudent(c, sd)
    \/ \E c \in Clients : OnAddStudent(c)
    \/ \E c \in Clients, sd \in StudentInputs : ops < MaxOps /\ ClientAddStudentBegin(c, sd)
    \/ \E c \in Clients : ClientAddStudentFinish(c)
    \/ \E c \in Clients : OnDataUpdate(c)

SpecAdd == Init /\ [][NextAdd]_vars

\* the attendance log: the targeted mark on the server, addAttendanceLog on a client
NextLog ==
    \/ \E c \in Operators : Connect(c)
    \/ \E c \in Clients : OnClientInfo(c)
    \/ \E c \in Clients : ClientReceive(c)
    \/ \E c \in Operators, a \in AttendanceInputs : ops < MaxCalls /\ EmitMarkAttendance(c, a)
    \/ \E c \in Clients : OnMarkAttendance(c)
    \/ \E c \in Operators, a \in AttendanceInputs : ops < MaxCalls /\ ClientAddLog(c, a)
    \/ Midnight

SpecLog == Init /\ [][NextLog]_vars

\* session slots: students with records, the targeted mark on the server,
\* updateStudentSession on a client
NextSession ==
    \/ \E c \in Operators : Connect(c)
    \/ \E c \in Clients : OnClientInfo(c)
    \/ \E c \in Clients : ClientReceive(c)
    \/ \E c \in Operators, sd \in StudentInputs : ops < MaxCalls /\ EmitAddStudent(c, sd)
    \/ \E c \in Clients : OnAddStudent(c)
    \/ \E c \in Operators, a \in SessionInputs : ops < MaxCalls /\ EmitMarkAttendance(c, a)
    \/ \E c \in Clients : OnMarkAttendance(c)
    \/ \E c \in Operators, sd \in StudentInputs : ops < MaxCalls /\ ClientAddStudentBegin(c, sd)
    \/ \E c \in Clients : ClientAddStudentFinish(c)
    \/ \E c \in Clients : OnDataUpdate(c)
    \/ \E c \in Operators, a \in SessionInputs :
          ops < MaxCalls /\ ClientUpdateSession(c, a.studentId, a.session, SessionData(a))
    \/ Midnight

SpecSession == Init /\ [][NextSession]_vars

\* QR scans, offline adds and every operation that changes the server's dataset
NextScan ==
    \/ \E c \in Clients : Connect(c)
    \/ \E c \in Clients : OnClientInfo(c)
    \/ \E c \in Clients : ClientReceive(c)
    \/ \E c \in Clients, sd \in StudentInputs : ops < MaxOps /\ ClientAddStudentBegin(c, sd)
    \/ \E c \in Clients : ClientAddStudentFinish(c)
    \/ \E c \in Clients : OnDataUpdate(c)
    \/ \E c \in Clients, n \in ScanCodes : ops < MaxOps /\ ClientScan(c, n)
    \/ \E c \in Clients, q \in ScanInputs : ops < MaxOps /\ RawQRScan(c, q)
    \/ \E c \in Clients : OnQRScan(c)
    \/ \E c \in Clients, sd \in StudentInputs : ops < MaxOps /\ EmitAddStudent(c, sd)
    \/ \E c \in Clients : OnAddStudent(c)
    \/ \E c \in Operators, a \in SessionInputs : ops < MaxOps /\ EmitMarkAttendance(c, a)
    \/ \E c \in Clients : OnMarkAttendance(c)
    \/ \E body \in ImportBodies : ops < MaxOps /\ RestImport(body)

SpecScan == Init /\ [][NextScan]_vars

\* one device, never connected: the DataManager's students, logs and tombstones
NextLocal ==
    \/ \E c \in Operators, sd \in StudentInputs : ops < MaxEdits /\ ClientAddStudentBegin(c, sd)
    \/ \E c \in Operators : ClientAddStudentFinish(c)
    \/ \E c \in Operators, a \in LocalLogs : ops < MaxEdits /\ ClientAddLog(c, a)
    \/ \E c \in Operators, id \in Ids : ops < MaxEdits /\ ClientDeleteTemporary(c, id)
    \/ \E c \in Operators, id \in Ids : ops < MaxEdits /\ ClientRestore(c, id)
    \/ \E c \in Operators, id \in Ids : ops < MaxEdits /\ ClientDeletePermanent(c, id)

SpecLocal == Init /\ [][NextLocal]_vars

\* one connected device and what each of its user operations sends
NextTrigger ==
    \/ \E c \in Operators : Connect(c)
    \/ \E c \in Clients : OnClientInfo(c)
    \/ \E c \in Clients : ClientReceive(c)
    \/ \E c \in Operators, sd \in StudentInputs : ops < MaxCalls /\ ClientAddStudentBegin(c, sd)
    \/ \E c \in Clients : ClientAddStudentFinish(c)
    \/ \E c \in Clients : OnDataUpdate(c)
    \/ \E c \in Operators, i \in 1..MaxCalls, form \in FormInputs :
          ops < MaxCalls /\ UIMarkAttendance(c, i, form)
    \/ \E c \in Clients : OnMarkAttendance(c)
    \/ \E c \in Operators, i \in 1..MaxCalls : ops < MaxCalls /\ UIMarkAllOthersAbsent(c, i)
    \/ \E c \in Operators, id \in Ids : ops < MaxCalls /\ ClientDeleteTemporary(c, id)
    \/ \E c \in Operators, id \in Ids : ops < MaxCalls /\ ClientRestore(c, id)
    \/ \E c \in Operators, id \in Ids : ops < MaxCalls /\ ClientDeletePermanent(c, id)
    \/ \E c \in Operators, sd \in StudentInputs : ops < MaxCalls /\ EmitAddStudent(c, sd)
    \/ \E c \in Clients : OnAddStudent(c)

SpecTrigger == Init /\ [][NextTrigger]_vars

\* payloads and datasets that are not what the client's own code sends: null payloads,
\* datasets that lack a collection, by socket and by POST /api/import
NextFault ==
    \/ \E c \in Clients : Connect(c)
    \/ \E c \in Clients : OnClientInfo(c)
    \/ \E c \in Clients : ClientReceive(c)
    \/ \E c \in Clients, type \in PayloadTypes : ops < MaxOps /\ RawNull(c, type)
    \/ \E c \in Clients, body \in PartialBodies : ops < MaxOps /\ RawPartialUpdate(c, body)
    \/ \E c \in Clients : OnDataUpdate(c)
    \/ \E c \in Clients, sd \in StudentInputs : ops < MaxOps /\ EmitAddStudent(c, sd)
    \/ \E c \in Clients : OnAddStudent(c)
    \/ \E c \in Operators, a \in FaultMarks : ops < MaxOps /\ EmitMarkAttendance(c, a)
    \/ \E c \in Clients : OnMarkAttendance(c)
    \/ \E c \in Clients, q \in FaultScans : ops < MaxOps /\ RawQRScan(c, q)
    \/ \E c \in Clients, n \in ScanCodes : ops < MaxOps /\ ClientScan(c, n)
    \/ \E c \in Clients : OnQRScan(c)
    \/ \E c \in Clients : ops < MaxOps /\ ClientHeartbeat(c)
    \/ \E c \in Clients : OnHeartbeat(c)
    \/ \E body \in ImportBodies \cup PartialBodies : ops < MaxOps /\ RestImport(body)

SpecFault == Init /\ [][NextFault]_vars

\* the targeted operations called for their promises, on two devices
NextRequest ==
    \/ \E c \in Clients : Connect(c)
    \/ \E c \in Clients : OnClientInfo(c)
    \/ \E c \in Clients : ClientReceive(c)
    \/ \E c \in Clients : ClientReply(c)
    \/ \E c \in Clients, sd \in StudentInputs : ops < MaxOps /\ CallAddStudent(c, sd)
    \/ \E c \in Clients : OnAddStudent(c)
    \/ \E c \in Clients, a \in SessionInputs : ops < MaxOps /\ CallMarkAttendance(c, a)
    \/ \E c \in Clients : OnMarkAttendance(c)

SpecRequest == Init /\ [][NextRequest]_vars

\* one device, never connected: a file is imported, then another; the list of deleted
\* students is opened; a session of the imported student is updated
NextImport ==
    \/ \E c \in Operators, data \in ImportPayloads : ops < MaxImports /\ ClientImport(c, data)
    \/ \E c \in Operators : ops < MaxImports /\ ClientRepair(c)
    \/ \E c \in Operators, n \in SessionNumbers :
          ops < MaxImports /\ ClientUpdateSession(c, Str(1), n, [attendance |-> Present])

SpecImport == Init /\ [][NextImport]_vars

\* the repair on its own: a device whose stored deletedStudents is any list of entries of
\* the shapes above opens the list of deleted students, and opens it again
InitRepair ==
    /\ appData = [students |-> <<>>, studentRecords |-> <<>>, attendanceLogs |-> <<>>,
                  deletedStudents |-> <<>>, lastUpdated |-> "start", version |-> "2.0.0"]
    /\ connectedClients = << >>
    /\ link = [c \in Clients |-> FALSE]
    /\ connected = [c \in Clients |-> FALSE]
    /\ \E l \in TombstoneLists :
          dm = [c \in Clients |-> IF c \in Operators
                                  THEN [EmptyCollections EXCEPT !.deletedStudents = l]
                                  ELSE EmptyCollections]
    /\ pendingAdd = [c \in Clients |-> Undefined]
    /\ toClient = [c \in Clients |-> <<>>]
    /\ toServer = [c \in Clients |-> <<>>]
    /\ last = [op |-> "none"]
    /\ lastCall = [op |-> "none"]
    /\ lastRecv = [op |-> "none"]
    /\ day = Day(1)
    /\ ops = 0
    /\ up = TRUE
    /\ promises = [c \in Clients |-> <<>>]

NextRepair == \E c \in Operators : ops < MaxRepairs /\ ClientRepair(c)

SpecRepair == InitRepair /\ [][NextRepair]_vars

\* two devices that come and go, identify themselves and send heartbeats, while the
\* operator's device adds students
NextRegistry ==
    \/ \E c \in Clients : Connect(c)
    \/ \E c \in Clients : ops < MaxCalls /\ Disconnect(c)
    \/ \E c \in Clients : OnDisconnect(c)
    \/ \E c \in Clients : OnClientInfo(c)
    \/ \E c \in Clients : ClientReceive(c)
    \/ \E c \in Clients : ops < MaxCalls /\ ClientHeartbeat(c)
    \/ \E c \in Clients : OnHeartbeat(c)
    \/ \E c \in Operators, sd \in StudentInputs : ops < MaxCalls /\ EmitAddStudent(c, sd)
    \/ \E c \in Clients : OnAddStudent(c)

SpecRegistry == Init /\ [][NextRegistry]_vars

\* ================================================================== claims
SentTo(sent, c, P(_)) == Count(sent, LAMBDA e : e.to = c /\ P(e.msg))

HasStudentLike(students, id, fullName) ==
    Exists(students, LAMBDA s : s.id = id /\ s.fullName = fullName)

\* C1: after the server handles a data-update its four collections are exactly the
\* pushed dataset's, whatever it held before and whatever lastUpdated the push carries;
\* the server stamps lastUpdated itself.
C1_DataUpdateReplaces ==
    last.op = "data-update" =>
        /\ Collections(appData) = Collections(last.msg.data)
        /\ appData.lastUpdated = "now"

\* a push stamped older than the server's dataset replaced a different dataset
C1_Witness ==
    /\ last.op = "data-update"
    /\ Has(last.msg.data, "lastUpdated")
    /\ last.msg.data.lastUpdated = "stale"
    /\ last.pre.lastUpdated = "now"
    /\ Collections(last.pre) # Collections(appData)

\* the case of C2: the server's latest handler took c2's push of the student c2 had just
\* added, and c1, which held another student with that id, then applied the data-sync
\* of that push
C2_Case(c1, c2) ==
    /\ c1 # c2
    /\ lastCall.op = "addStudent" /\ lastCall.client = c2 /\ lastCall.ok
    /\ last.op = "data-update" /\ last.client = c2
    /\ HasStudentLike(last.msg.data.students, lastCall.arg.id, lastCall.arg.fullName)
    /\ lastRecv.op = "data-sync" /\ lastRecv.client = c1
    /\ lastRecv.msg.data = last.post
    /\ Exists(lastRecv.pre.students,
              LAMBDA s : s.id = lastCall.arg.id /\ s.fullName # lastCall.arg.fullName)

\* C2: when client 1 holds a student with id X and client 2 adds a different student
\* with id X and pushes, then after the server handled the push and client 1 applied
\* its data-sync, client 1 and the server hold client 2's student, client 1's own is
\* gone, and no error was written to anyone.
C2_LastWriterWins ==
    \A c1, c2 \in Clients :
        C2_Case(c1, c2) =>
            /\ HasStudentLike(lastRecv.post.students, lastCall.arg.id, lastCall.arg.fullName)
            /\ HasStudentLike(appData.students, lastCall.arg.id, lastCall.arg.fullName)
            /\ ~Exists(lastRecv.post.students,
                       LAMBDA s : s.id = lastCall.arg.id /\ s.fullName # lastCall.arg.fullName)
            /\ lastRecv.post.students = appData.students
            /\ ~Exists(last.sent, LAMBDA e : e.msg.type = "operation-error")

C2_Witness == \E c1, c2 \in Clients : C2_Case(c1, c2)

\* C9: on a connection the server registers the socket with deviceType 'unknown', writes
\* initial-data with its current dataset to that socket and to no other (no other socket
\* is written a dataset), and writes clients-update with the new count to every socket,
\* the new one included.
C9_ConnectHandshake ==
    last.op = "connection" =>
        /\ last.client \in DOMAIN last.registry
        /\ last.registry[last.client].deviceType = "unknown"
        /\ SentTo(last.sent, last.client,
                  LAMBDA m : m.type = "initial-data" /\ m.data = last.pre) = 1
        /\ \A i \in 1..Len(last.sent) :
              last.sent[i].msg.type \in Replacing => last.sent[i].to = last.client
        /\ \A x \in DOMAIN last.registry :
              SentTo(last.sent, x,
                     LAMBDA m : m.type = "clients-update"
                                /\ m.count = Cardinality(DOMAIN last.registry)) = 1
        /\ \A i \in 1..Len(last.sent) : last.sent[i].to \in DOMAIN last.registry

\* a second client connects to a server that holds a student
C9_Witness ==
    /\ last.op = "connection"
    /\ Cardinality(DOMAIN last.registry) = 2
    /\ last.pre.students # <<>>

\* C3: when an active student with id i exists, adding a student with the same id i
\* fails with a duplicate error and leaves the students and the student records as they
\* were: the server's add-student writes one operation-error, to the sender, and nothing
\* else; the client's DataManager.addStudent throws DUPLICATE_ID.
C3_DuplicateRejected ==
    /\ (last.op = "add-student"
        /\ Exists(last.pre.students, LAMBDA s : s.id = last.msg.student.id)) =>
          /\ Len(last.sent) = 1
          /\ last.sent[1].to = last.client
          /\ last.sent[1].msg.type = "operation-error"
          /\ last.sent[1].msg.operation = "add-student"
          /\ last.sent[1].msg.error.kind = "ALREADY_EXISTS"
          /\ last.post.students = last.pre.students
          /\ last.post.studentRecords = last.pre.studentRecords
    /\ (lastCall.op = "addStudent"
        /\ Exists(lastCall.pre.students, LAMBDA s : s.id = lastCall.arg.id)) =>
          /\ ~lastCall.ok
          /\ lastCall.value.kind = "DUPLICATE_ID"
          /\ lastCall.post.students = lastCall.pre.students
          /\ lastCall.post.studentRecords = lastCall.pre.studentRecords

\* the server refused a student whose id another student, of another name, holds
C3_Witness ==
    /\ last.op = "add-student"
    /\ Exists(last.pre.students,
              LAMBDA s : s.id = last.msg.student.id /\ s.fullName # last.msg.student.fullName)
    /\ last.pre.studentRecords # <<>>

\* the entry e is the one a mark a on the date d makes
EntryCarries(e, a, d) ==
    /\ e.studentId = a.studentId
    /\ e.date = d
    /\ e.session = Num(a.session[2])
    /\ e.attendance = a.attendance
    /\ Has(a, "homework") => e.homework = a.homework
    /\ Has(a, "quiz") => e.quiz = a.quiz

\* the log post is the log pre after one mark a on the date d, where M are the positions
\* of pre that hold the mark's triple and Same(_) tells an entry of that triple: with no
\* entry the new one is at the head; with one entry it is rewritten where it was, keeps
\* its id and createdAt, and is the only one of its triple
Upserted(pre, post, M, Same(_), a, d, id, createdAt) ==
    /\ M = {} =>
          /\ Len(post) = Len(pre) + 1
          /\ Tail(post) = pre
          /\ EntryCarries(Head(post), a, d)
          /\ Head(post).id = id
          /\ Head(post).createdAt = createdAt
    /\ Cardinality(M) = 1 =>
          LET i == CHOOSE i \in M : TRUE
          IN /\ Len(post) = Len(pre)
             /\ \A j \in 1..Len(pre) : j # i => post[j] = pre[j]
             /\ EntryCarries(post[i], a, d)
             /\ post[i].id = pre[i].id
             /\ post[i].createdAt = pre[i].createdAt
             /\ {j \in 1..Len(post) : Same(post[j])} = {i}

\* C4: a mark for a (studentId, date, session) triple that has an entry rewrites that
\* entry in place with the mark's attendance, homework and quiz, keeps its id and
\* createdAt, and leaves it the only entry of the triple; a mark for a triple with no
\* entry puts a new entry at the head of the log.  The server tells triples apart as its
\* handler compares ids (===), the client as its DataManager does (==).
C4_AttendanceUpsert ==
    /\ last.op = "mark-attendance" =>
          LET a == last.msg.attendance
              d == IF Has(a, "date") THEN a.date ELSE last.draws.today
              Same(e) == e.studentId = a.studentId /\ e.date = d /\ e.session = Num(a.session[2])
              pre == last.pre.attendanceLogs
          IN Upserted(pre, last.post.attendanceLogs, {i \in 1..Len(pre) : Same(pre[i])},
                      Same, a, d, last.draws.lid, last.draws.now)
    /\ (lastCall.op = "addAttendanceLog" /\ lastCall.ok) =>
          LET a == lastCall.arg
              d == IF Has(a, "date") THEN a.date ELSE lastCall.today
              Same(e) == /\ LooseEq(e.studentId, a.studentId)
                         /\ e.date = d
                         /\ e.session = Num(a.session[2])
              pre == lastCall.pre.attendanceLogs
          IN Upserted(pre, lastCall.post.attendanceLogs, {i \in 1..Len(pre) : Same(pre[i])},
                      Same, a, d, lastCall.lid, lastCall.now)

\* the server took a second mark, with other attendance, homework and quiz, for the
\* triple of an entry that is not at the head of the log
C4_Witness ==
    /\ last.op = "mark-attendance"
    /\ LET a == last.msg.attendance
           d == IF Has(a, "date") THEN a.date ELSE last.draws.today
           pre == last.pre.attendanceLogs
       IN /\ Has(a, "homework") /\ Has(a, "quiz")
          /\ \E i \in 2..Len(pre) :
                /\ pre[i].studentId = a.studentId /\ pre[i].date = d
                /\ pre[i].session = Num(a.session[2])
                /\ pre[i].attendance # a.attendance
                /\ pre[i].homework # a.homework
                /\ pre[i].quiz # a.quiz
                /\ pre[i].createdAt # last.draws.now

OnlyAttendance(sd) == DOMAIN sd \cap {"attendance", "homework", "quiz", "date"} = {"attendance"}

\* if the slot k of the record at position i of pre holds an attendance, a homework, a
\* quiz and a date, it has in post the homework, quiz and date it had in pre
SlotKept(pre, post, i, k) ==
    (/\ k \in DOMAIN pre[i].sessions
     /\ \A f \in {"attendance", "homework", "quiz", "date"} :
           pre[i].sessions[k][f] \notin {JNull, Undefined}) =>
        /\ post[i].sessions[k].homework = pre[i].sessions[k].homework
        /\ post[i].sessions[k].quiz = pre[i].sessions[k].quiz
        /\ post[i].sessions[k].date = pre[i].sessions[k].date

\* C5: a mark that supplies only the attendance leaves the homework, quiz and date
\* recorded in that session slot as they were, on the server (mark-attendance) and on
\* the client (updateStudentSession).
C5_SessionFieldMerge ==
    /\ (last.op = "mark-attendance" /\ OnlyAttendance(last.msg.attendance)) =>
          \A i \in 1..Len(last.pre.studentRecords) :
              last.pre.studentRecords[i].id = last.msg.attendance.studentId =>
                  SlotKept(last.pre.studentRecords, last.post.studentRecords, i,
                           last.msg.attendance.session[2])
    /\ (lastCall.op = "updateStudentSession" /\ lastCall.ok
        /\ OnlyAttendance(lastCall.arg.sessionData)) =>
          \A i \in 1..Len(lastCall.pre.studentRecords) :
              LooseEq(lastCall.pre.studentRecords[i].id, lastCall.arg.studentId) =>
                  SlotKept(lastCall.pre.studentRecords, lastCall.post.studentRecords, i,
                           lastCall.arg.sessionNumber[2])

\* the case of C6 and C8: the server's latest handler took a qr-scan for an id that none
\* of its students had
ScanMiss ==
    /\ last.op = "qr-scan"
    /\ ~Exists(last.pre.students, LAMBDA s : s.id = last.msg.scan.studentId)

\* C6: when a qr-scan for an id that no active student of the server has carries the
\* client's copy of that student, then after the handler the sender was written
\* qr-scan-result with success and the adopted student, the server's students hold that
\* id exactly once, tagged syncedFromClient, and the server holds exactly one record of
\* that id.
C6_AdoptOnMiss ==
    (ScanMiss /\ Has(last.msg.scan, "student")
     /\ last.msg.scan.student.id = last.msg.scan.studentId) =>
        LET q == last.msg.scan
        IN /\ SentTo(last.sent, last.client,
                     LAMBDA m : /\ m.type = "qr-scan-result"
                                /\ m.success
                                /\ m.student.id = q.studentId
                                /\ m.student.fullName = q.student.fullName
                                /\ Has(m.student, "syncedFromClient")) = 1
           /\ Count(appData.students, LAMBDA s : s.id = q.studentId) = 1
           /\ \A i \in 1..Len(appData.students) :
                 appData.students[i].id = q.studentId =>
                     /\ Has(appData.students[i], "syncedFromClient")
                     /\ appData.students[i].syncedFromClient
                     /\ appData.students[i].fullName = q.student.fullName
           /\ Count(appData.studentRecords, LAMBDA r : r.id = q.studentId) = 1

\* the server, which held another student, adopted the copy a scan carried
C6_Witness ==
    /\ ScanMiss
    /\ Has(last.msg.scan, "student")
    /\ last.msg.scan.student.id = last.msg.scan.studentId
    /\ last.pre.students # <<>>
    /\ Len(appData.students) = Len(last.pre.students) + 1

\* C7: a client that added a student while disconnected, then connected and scanned that
\* student's QR code, has made the student one of the server's active students once the
\* server has handled the scan.
C7_OfflinePushByScan ==
    (/\ lastCall.op = "handleQRScan"
     /\ lastCall.online
     /\ lastCall.idle
     /\ lastCall.found # NotFound
     /\ lastCall.after.op = "addStudent"
     /\ lastCall.after.client = lastCall.client
     /\ lastCall.after.ok
     /\ ~lastCall.after.online
     /\ LooseEq(lastCall.after.arg.id, lastCall.arg)
     /\ last.op = "qr-scan"
     /\ last.client = lastCall.client
     /\ last.msg.scan.studentId = lastCall.arg) =>
        Exists(appData.students, LAMBDA s : LooseEq(s.id, lastCall.arg))

\* C8: when a qr-scan for an id that no active student of the server has carries no copy,
\* the sender is written qr-scan-result with success false ('Student not found'), nothing
\* else is written (no student-scanned to anyone), and the server's dataset is unchanged.
C8_ScanMiss ==
    (ScanMiss /\ ~Has(last.msg.scan, "student")) =>
        /\ Len(last.sent) = 1
        /\ last.sent[1].to = last.client
        /\ last.sent[1].msg.type = "qr-scan-result"
        /\ ~last.sent[1].msg.success
        /\ last.sent[1].msg.error.kind = "Student not found"
        /\ ~Exists(last.sent, LAMBDA e : e.msg.type = "student-scanned")
        /\ appData = last.pre

\* with two sockets open, a client's scan of a student it holds and the server does not
C8_Witness ==
    /\ ScanMiss
    /\ ~Has(last.msg.scan, "student")
    /\ Cardinality(DOMAIN last.registry) = 2
    /\ lastCall.op = "handleQRScan"
    /\ lastCall.client = last.client
    /\ lastCall.found # NotFound

\* the operations that change the server's dataset
Mutating == {"data-update", "add-student", "mark-attendance", "qr-scan", "import"}

\* C10: after every accepted operation that changes the server's dataset, every socket
\* other than the submitter's is written a data-sync carrying the new dataset.
C10_BroadcastAfterMutation ==
    (last.op \in Mutating /\ Collections(last.post) # Collections(last.pre)) =>
        \A x \in DOMAIN last.registry \ {last.client} :
            SentTo(last.sent, x, LAMBDA m : m.type = "data-sync" /\ m.data = last.post) >= 1

\* the step in which the server handles the data-update at the head of c's socket
HandlesDataUpdate(c) ==
    /\ Pending(c, "data-update")
    /\ toServer'[c] = Tail(toServer[c])

\* C11: for a data-update the server writes the sender exactly one message, an
\* update-confirmed with success true, and no data-sync; it writes every other registered
\* socket exactly one data-sync, carrying the pushed dataset.  In that step nothing is put
\* in flight to the sender and no client's local dataset changes, and every other open
\* registered socket gets that one data-sync in flight.
C11_PushAcknowledged ==
    /\ [](last.op = "data-update" =>
            /\ Len(MsgsFor(last.sent, last.client)) = 1
            /\ SentTo(last.sent, last.client,
                      LAMBDA m : m.type = "update-confirmed" /\ m.success) = 1
            /\ SentTo(last.sent, last.client, LAMBDA m : m.type \in Replacing) = 0
            /\ \A x \in DOMAIN last.registry \ {last.client} :
                  /\ Len(MsgsFor(last.sent, x)) = 1
                  /\ SentTo(last.sent, x,
                            LAMBDA m : /\ m.type = "data-sync"
                                       /\ m.data = last.post
                                       /\ Collections(m.data) = Collections(last.msg.data)) = 1)
    /\ [][\A c \in Clients :
            HandlesDataUpdate(c) =>
                /\ toClient'[c] = toClient[c]
                /\ dm' = dm
                /\ \A x \in DOMAIN connectedClients \ {c} :
                      link[x] => toClient'[x] = Append(toClient[x],
                                                      [type |-> "data-sync", data |-> appData'])]_vars

\* with two sockets open the server took a push of a student; the sender still holds
\* what it pushed and has nothing in flight, the other socket has the data-sync in flight
C11_Witness ==
    /\ last.op = "data-update"
    /\ Cardinality(DOMAIN last.registry) = 2
    /\ last.post.students # <<>>
    /\ dm[last.client].students = last.post.students
    /\ toClient[last.client] = <<>>
    /\ \E x \in Clients \ {last.client} :
          /\ toClient[x] # <<>>
          /\ toClient[x][Len(toClient[x])] = [type |-> "data-sync", data |-> last.post]

\* the step in which client c handles the initial-data or data-sync at the head of what
\* is in flight to it
Receives(c) ==
    /\ toClient[c] # <<>>
    /\ IsReplacing(Head(toClient[c]))
    /\ toClient'[c] = Tail(toClient[c])
    /\ link'[c]

\* the four collections of a message's dataset, [] for one it lacks
MessageCollections(data) ==
    [f \in {"students", "studentRecords", "attendanceLogs", "deletedStudents"} |->
        IF Has(data, f) THEN data[f] ELSE <<>>]

\* C12: when a client handles an initial-data or data-sync, its four collections become
\* exactly the message's, an absent collection becoming empty, whatever it held before;
\* in that step nothing is written to the server and no other client's dataset changes.
C12_WholesaleReplace ==
    /\ [](lastRecv.op \in Replacing => lastRecv.post = MessageCollections(lastRecv.msg.data))
    /\ [][\A c \in Clients :
            Receives(c) =>
                /\ dm'[c] = MessageCollections(Head(toClient[c]).data)
                /\ \A x \in Clients \ {c} : dm'[x] = dm[x]
                /\ toServer' = toServer
                /\ lastRecv'.client = c /\ lastRecv'.post = dm'[c]]_vars

\* a client that held a student and its record handled a data-sync whose dataset has
\* no studentRecords and other students: the record and the student are gone
C12_Witness ==
    /\ lastRecv.op = "data-sync"
    /\ lastRecv.pre.studentRecords # <<>>
    /\ lastRecv.pre.students # <<>>
    /\ ~Has(lastRecv.msg.data, "studentRecords")
    /\ Has(lastRecv.msg.data, "students")
    /\ dm[lastRecv.client].studentRecords = <<>>
    /\ dm[lastRecv.client].students = lastRecv.msg.data.students
    /\ lastRecv.pre.students # lastRecv.msg.data.students

\* the server's latest handler took an add-student or a mark-attendance and did not
\* answer operation-success
Failed ==
    /\ last.op \in {"add-student", "mark-attendance"}
    /\ ~Exists(last.sent, LAMBDA e : e.msg.type = "operation-success")

\* C13: whenever the server rejects or fails an add-student or a mark-attendance, it
\* writes one operation-error, to the sender, writes nothing else to anyone, and its
\* dataset is what it was before the message.
C13_ErrorsUnicastNoChange ==
    Failed =>
        /\ Len(last.sent) = 1
        /\ last.sent[1].to = last.client
        /\ last.sent[1].msg.type = "operation-error"
        /\ last.sent[1].msg.operation = last.op
        /\ appData = last.pre

\* C14: whatever message the server is sent, of whatever type and payload and after
\* whatever history, no exception leaves its handler: the process keeps running and
\* serves what comes next.
C14_NoHandlerThrows == up

\* C15: a POST /api/import either commits the whole body and answers success, or answers
\* an error, leaves the dataset as it was and writes nothing to any socket; a body that
\* has students but lacks studentRecords or attendanceLogs is answered an error.
C15_ImportAllOrNothing ==
    last.op = "import" =>
        /\ \/ /\ last.draws.status = 200
              /\ appData = SpreadWithStamp(last.msg)
           \/ /\ last.draws.status # 200
              /\ appData = last.pre
              /\ last.sent = <<>>
        /\ (~Has(last.msg, "studentRecords") \/ ~Has(last.msg, "attendanceLogs")) =>
              last.draws.status # 200

\* the latest DataManager call is a restoreStudent(id) that directly followed the call
\* op(id) on the same device, which succeeded
RestoreFollows(op) ==
    /\ lastCall.op = "restoreStudent"
    /\ lastCall.after.op = op
    /\ lastCall.after.client = lastCall.client
    /\ lastCall.after.arg = lastCall.arg
    /\ lastCall.after.ok
    /\ lastCall.pre = lastCall.after.post

LogsOf(logs, id) == {logs[j] : j \in {k \in 1..Len(logs) : LooseEq(logs[k].studentId, id)}}

\* the case of C16: the student deleted had a record and logs
RoundTrip ==
    /\ RestoreFollows("deleteStudentTemporary")
    /\ lastCall.after.value.record # NotFound
    /\ lastCall.after.value.logs # <<>>

\* C16: for an active student with a record and logs, deleteStudentTemporary(id) followed
\* by restoreStudent(id) succeeds and leaves the original student among the active
\* students, its original record among the records, the logs of the id exactly those
\* that existed at deletion, none twice, and no tombstone of the id; a second
\* restoreStudent(id) fails and leaves students, records and logs as they were.
C16_TombstoneRoundTrip ==
    /\ RoundTrip =>
          LET id == lastCall.arg
              deleted == lastCall.after.value
              before == lastCall.after.pre
              post == lastCall.post
          IN /\ lastCall.ok
             /\ Exists(post.students, LAMBDA st : st = deleted.student)
             /\ Exists(post.studentRecords, LAMBDA r : r = deleted.record)
             /\ LogsOf(post.attendanceLogs, id) = LogsOf(before.attendanceLogs, id)
             /\ Count(post.attendanceLogs, LAMBDA log : LooseEq(log.studentId, id))
                   = Count(before.attendanceLogs, LAMBDA log : LooseEq(log.studentId, id))
             /\ ~Exists(post.deletedStudents, LAMBDA t : LooseEq(t.student.id, id))
    /\ RestoreFollows("restoreStudent") =>
          /\ ~lastCall.ok
          /\ lastCall.post.students = lastCall.pre.students
          /\ lastCall.post.studentRecords = lastCall.pre.studentRecords
          /\ lastCall.post.attendanceLogs = lastCall.pre.attendanceLogs

\* C17: after deleteStudentPermanent(id) succeeds, no active student, no student record,
\* no attendance log and no tombstone of that id remains, whatever the dataset held
\* (the id may be active and tombstoned at once).
C17_HardDeleteErases ==
    (lastCall.op = "deleteStudentPermanent" /\ lastCall.ok) =>
        LET id == lastCall.arg
            post == dm[lastCall.client]
        IN /\ ~Exists(post.students, LAMBDA st : LooseEq(st.id, id))
           /\ ~Exists(post.studentRecords, LAMBDA r : LooseEq(r.id, id))
           /\ ~Exists(post.attendanceLogs, LAMBDA log : LooseEq(log.studentId, id))
           /\ ~Exists(post.deletedStudents, LAMBDA t : LooseEq(t.student.id, id))

\* the step in which the server handles the message of that type at the head of c's socket
Handles(c, type) ==
    /\ Pending(c, type)
    /\ toServer'[c] = Tail(toServer[c])

Targeted == {"add-student", "mark-attendance", "qr-scan"}

\* C18: the server handles one message at a time, the head of a socket's queue, and the
\* dataset changes in no other step of a socket.  When it handles a push D right after a
\* targeted operation T, its collections become exactly D's, whatever T had done.  When
\* it handles T right after a push D, the result is D with T on top: an add-student of a
\* new id appends the student and its record to D's; a mark-attendance leaves D's
\* students and tombstones, keeps D's log entries of other keys and holds the mark's
\* entry; a qr-scan that adopts appends the adopted copy to D's students.
C18_ArrivalOrder ==
    [][/\ appData' # appData =>
             \/ last'.op = "import"
             \/ \E c \in Clients :
                   /\ toServer[c] # <<>>
                   /\ toServer'[c] = Tail(toServer[c])
                   /\ last'.msg = Head(toServer[c])
                   /\ last'.pre = appData
                   /\ \A x \in Clients \ {c} : toServer'[x] = toServer[x]
       /\ \A c \in Clients :
             /\ (Handles(c, "data-update") /\ last.op \in Targeted) =>
                   Collections(appData') = Collections(Head(toServer[c]).data)
             /\ (Handles(c, "add-student") /\ last.op = "data-update") =>
                   LET D == last.msg.data
                       sd == Head(toServer[c]).student
                   IN IF Exists(D.students, LAMBDA st : st.id = sd.id)
                      THEN Collections(appData') = Collections(D)
                      ELSE Collections(appData') =
                              [Collections(D) EXCEPT
                                  !.students = Append(@, sd),
                                  !.studentRecords = Append(@, NewRecord(sd))]
             /\ (Handles(c, "mark-attendance") /\ last.op = "data-update") =>
                   LET D == last.msg.data
                       a == Head(toServer[c]).attendance
                       d == IF Has(a, "date") THEN a.date ELSE day
                       Same(e) == /\ e.studentId = a.studentId /\ e.date = d
                                  /\ e.session = Num(a.session[2])
                   IN /\ appData'.students = D.students
                      /\ appData'.deletedStudents = D.deletedStudents
                      /\ Len(appData'.studentRecords) = Len(D.studentRecords)
                      /\ SelectSeq(appData'.attendanceLogs, LAMBDA e : ~Same(e))
                            = SelectSeq(D.attendanceLogs, LAMBDA e : ~Same(e))
                      /\ Exists(appData'.attendanceLogs,
                                LAMBDA e : Same(e) /\ e.attendance = a.attendance)
             /\ (Handles(c, "qr-scan") /\ last.op = "data-update") =>
                   LET D == last.msg.data
                       q == Head(toServer[c]).scan
                   IN IF Has(q, "student")
                         /\ ~Exists(D.students, LAMBDA st : st.id = q.studentId)
                      THEN /\ Len(appData'.students) = Len(D.students) + 1
                           /\ SubSeq(appData'.students, 1, Len(D.students)) = D.students
                           /\ appData'.students[Len(D.students) + 1].id = q.student.id
                           /\ appData'.attendanceLogs = D.attendanceLogs
                      ELSE Collections(appData') = Collections(D)
      ]_vars

\* a socket has in flight, in this order, the data-sync of an add-student and the
\* data-sync of the push the server handled next: the push lacks the student added
C18_Witness ==
    /\ last.op = "data-update"
    /\ \E x \in Clients :
          /\ Len(toClient[x]) = 2
          /\ toClient[x][1].type = "data-sync"
          /\ Exists(toClient[x][1].data.students, LAMBDA st : ~Has(st, "qrCodeUrl"))
          /\ toClient[x][1].data = last.pre
          /\ toClient[x][2] = [type |-> "data-sync", data |-> last.post]
          /\ last.post.students # <<>>
          /\ ~Exists(last.post.students, LAMBDA st : ~Has(st, "qrCodeUrl"))

Sends(c) ==
    /\ Len(toServer'[c]) = Len(toServer[c]) + 1
    /\ LET m == toServer'[c][Len(toServer'[c])]
       IN \/ m.type = "data-update" /\ m.data = DataUpdatePayload(dm'[c])
          \/ m.type \in {"add-student", "mark-attendance"}

\* the operations of the page, other than the add, that change the local dataset
LocalMutations ==
    {"deleteStudentTemporary", "restoreStudent", "deleteStudentPermanent", "markAttendance",
     "markAllOthersAbsent"}

\* C20: whenever a connected client completes an operation that changes its local
\* dataset (a soft delete, a restore, a hard delete, a mark, a mark-all-others-absent,
\* or an add once its QR image is stored), it writes the server a data-update with its
\* whole local dataset or the matching targeted operation.
C20_OutboundAfterMutation ==
    [][\A c \in Clients :
          /\ (/\ connected[c]
              /\ lastCall' # lastCall
              /\ lastCall'.client = c
              /\ lastCall'.op \in LocalMutations
              /\ lastCall'.ok
              /\ dm'[c] # dm[c]) => Sends(c)
          /\ (/\ connected[c]
              /\ pendingAdd[c] # Undefined
              /\ pendingAdd'[c] = Undefined) => Sends(c)]_vars

\* the message of an error starts with the prefix p, before a '|'
StartsWith(error, p) == Has(error, "prefix") /\ error.prefix = p

\* C21: every rejection of an add because the id is already active is an error whose
\* message starts with DUPLICATE_ID and carries a suggested id, from the client's
\* DataManager.addStudent and from the server's add-student alike.
C21_DuplicateErrorKind ==
    /\ (lastCall.op = "addStudent" /\ ~lastCall.ok) =>
          /\ StartsWith(lastCall.value, "DUPLICATE_ID")
          /\ Has(lastCall.value, "suggested")
    /\ (last.op = "add-student" /\ StudentExists(last.pre, last.msg.student.id)) =>
          \A i \in 1..Len(last.sent) :
              last.sent[i].msg.type = "operation-error" =>
                  /\ StartsWith(last.sent[i].msg.error, "DUPLICATE_ID")
                  /\ Has(last.sent[i].msg.error, "suggested")

\* no two entries of a log have the same studentId, date and session
OnePerKey(logs) ==
    \A i, j \in 1..Len(logs) :
        (/\ logs[i].studentId = logs[j].studentId
         /\ logs[i].date = logs[j].date
         /\ logs[i].session = logs[j].session) => i = j

\* C22: in every reachable state the attendance log of the server and of every client
\* holds at most one entry per (studentId, date, session).
C22_LogKeyInvariant ==
    /\ Has(appData, "attendanceLogs") => OnePerKey(appData.attendanceLogs)
    /\ \A c \in Clients : OnePerKey(dm[c].attendanceLogs)

\* every student of the dataset has exactly one record with its id
OneRecordEach(d) ==
    \A i \in 1..Len(d.students) :
        Count(d.studentRecords, LAMBDA r : r.id = d.students[i].id) = 1

\* C23: in every reachable state every active student of the server's dataset and of
\* every client's dataset has exactly one StudentRecord with the same id.
C23_RecordPerStudent ==
    /\ (Has(appData, "students") /\ Has(appData, "studentRecords")) => OneRecordEach(appData)
    /\ \A c \in Clients : OneRecordEach(dm[c])

\* the session slots of every record of the dataset are exactly 1..maxSessions
SlotsWhole(d) ==
    \A i \in 1..Len(d.studentRecords) : DOMAIN d.studentRecords[i].sessions = 1..maxSessions

\* the records a handler appended to the server's dataset
Created ==
    IF Has(last.pre, "studentRecords") /\ Has(last.post, "studentRecords")
    THEN SubSeq(last.post.studentRecords, Len(last.pre.studentRecords) + 1,
                Len(last.post.studentRecords))
    ELSE <<>>

\* C24: every StudentRecord has exactly the session slots 1..8, on the server and on every
\* client, and a record that add-student or a qr-scan adoption creates has them all empty.
C24_SessionSlots ==
    /\ Has(appData, "studentRecords") => SlotsWhole(appData)
    /\ \A c \in Clients : SlotsWhole(dm[c])
    /\ last.op \in {"add-student", "qr-scan"} =>
          \A i \in 1..Len(Created) :
              Created[i].sessions = [k \in 1..maxSessions |-> EmptySession]

\* no two students of the list have the same id
UniqueIds(students) ==
    \A i, j \in 1..Len(students) : students[i].id = students[j].id => i = j

\* C25: in every reachable state no two active students share an id, on the server and
\* on every client.
C25_ActiveIdsUnique ==
    /\ Has(appData, "students") => UniqueIds(appData.students)
    /\ \A c \in Clients : UniqueIds(dm[c].students)

\* C26: add-student on the server is rejected whenever an active student has an id equal
\* to the new one under ==, as the client's getStudentById finds duplicates: the dataset
\* stays as it was and the sender is written an operation-error.
C26_LooseDuplicateCheck ==
    (/\ last.op = "add-student"
     /\ Has(last.pre, "students")
     /\ GetStudentById(last.pre, last.msg.student.id) # NotFound) =>
        /\ last.post = last.pre
        /\ last.sent # <<>>
        /\ \A i \in 1..Len(last.sent) : last.sent[i].msg.type = "operation-error"

\* C27: when the server handles a mark-attendance for a studentId that has no
\* StudentRecord, a record of that id exists afterwards and its slot of the marked session
\* holds the mark.
C27_RecordOnTheFly ==
    (/\ last.op = "mark-attendance"
     /\ last.msg.attendance # NoPayload
     /\ Has(last.pre, "studentRecords")
     /\ ~Exists(last.pre.studentRecords, LAMBDA r : r.id = last.msg.attendance.studentId)) =>
        Exists(last.post.studentRecords,
               LAMBDA r : /\ r.id = last.msg.attendance.studentId
                          /\ SlotKey(last.msg.attendance.session) \in DOMAIN r.sessions
                          /\ r.sessions[SlotKey(last.msg.attendance.session)] =
                                ServerSession(last.msg.attendance, last.draws.today))

\* C29: while a client's addStudent waits for its QR image no initial-data or data-sync
\* replaces the client's collections, and when addStudent finishes a student with the id
\* it added is in the client's students and, if the client is connected, in the dataset
\* it pushes.
C29_AddNotInterleaved ==
    [][\A c \in Clients :
          /\ pendingAdd[c] # Undefined => ~Receives(c)
          /\ (pendingAdd[c] # Undefined /\ pendingAdd'[c] = Undefined) =>
                /\ GetStudentById(dm'[c], pendingAdd[c]) # NotFound
                /\ connected[c] =>
                      LET m == toServer'[c][Len(toServer'[c])]
                      IN /\ m.type = "data-update"
                         /\ Exists(m.data.students,
                                   LAMBDA s : LooseEq(s.id, pendingAdd[c]))]_vars

\* the step in which client c handles the operation-success or operation-error at the
\* head of what is in flight to it
GetsReply(c) ==
    /\ toClient[c] # <<>>
    /\ IsReply(Head(toClient[c]))
    /\ toClient'[c] = Tail(toClient[c])
    /\ link'[c]

\* C30: an answer that arrives at a client settles every promise of the client that is
\* pending for the operation the answer names, resolved with the answer's data or
\* rejected with its error, whichever request the answer belongs to; promises of another
\* operation and settled promises stay as they are.  So of two requests of one operation
\* in flight together, the second's promise is settled by the answer to the first.
C30_SettledByOperationName ==
    [][\A c \in Clients :
          GetsReply(c) =>
              LET m == Head(toClient[c])
              IN /\ Len(promises'[c]) = Len(promises[c])
                 /\ \A i \in 1..Len(promises[c]) :
                       LET p == promises[c][i]
                           q == promises'[c][i]
                       IN IF p.state = "pending" /\ p.op = m.operation
                          THEN /\ q.op = p.op /\ q.arg = p.arg
                               /\ m.type = "operation-success" =>
                                     q.state = "resolved" /\ q.value = m.data
                               /\ m.type = "operation-error" =>
                                     q.state = "rejected" /\ q.value = m.error
                          ELSE q = p]_vars

\* two add-student requests of one client for two different students: both promises are
\* resolved with the student of the first
C30_Witness ==
    \E c \in Clients :
        /\ Len(promises[c]) = 2
        /\ promises[c][1].op = "add-student" /\ promises[c][2].op = "add-student"
        /\ promises[c][1].arg # promises[c][2].arg
        /\ promises[c][1].state = "resolved" /\ promises[c][2].state = "resolved"
        /\ promises[c][1].value = promises[c][1].arg
        /\ promises[c][2].value = promises[c][1].arg
        /\ lastRecv.op = "operation-success" /\ lastRecv.client = c

\* the promise was written to the server as a request and has its answer
Answered(p) == p.state # "pending" /\ p.value # [kind |-> "Not connected to server"]

\* C28: when two clients each send one add-student with the same id, one of them is
\* answered operation-success and the other operation-error, whichever arrives first; the
\* server never holds more than one student or record of the id, and once both are
\* answered it holds exactly one of each, the student being the one of the client that
\* was answered operation-success.
C28_SameIdAddRace ==
    \A c1, c2 \in Clients :
        (/\ c1 # c2
         /\ Len(promises[c1]) = 1 /\ Len(promises[c2]) = 1
         /\ promises[c1][1].op = "add-student" /\ promises[c2][1].op = "add-student"
         /\ promises[c1][1].arg.id = promises[c2][1].arg.id) =>
            LET p1 == promises[c1][1]
                p2 == promises[c2][1]
                id == p1.arg.id
            IN /\ Count(appData.students, LAMBDA s : s.id = id) <= 1
               /\ Count(appData.studentRecords, LAMBDA r : r.id = id) <= 1
               /\ (Answered(p1) /\ Answered(p2)) =>
                     /\ {p1.state, p2.state} = {"resolved", "rejected"}
                     /\ Count(appData.students, LAMBDA s : s.id = id) = 1
                     /\ Count(appData.studentRecords, LAMBDA r : r.id = id) = 1
                     /\ p1.state = "resolved" =>
                           Exists(appData.students, LAMBDA s : s = p1.arg)
                     /\ p2.state = "resolved" =>
                           Exists(appData.students, LAMBDA s : s = p2.arg)

\* both devices asked for the id under different names; the first device was refused and
\* the second has its student on the server
C28_Witness ==
    /\ Len(promises[1]) = 1 /\ Len(promises[2]) = 1
    /\ promises[1][1].op = "add-student" /\ promises[2][1].op = "add-student"
    /\ promises[1][1].arg.id = promises[2][1].arg.id
    /\ promises[1][1].arg.fullName # promises[2][1].arg.fullName
    /\ promises[1][1].state = "rejected" /\ promises[1][1].value.kind = "ALREADY_EXISTS"
    /\ promises[2][1].state = "resolved"
    /\ appData.students = <<promises[2][1].arg>>
    /\ Len(appData.studentRecords) = 1

\* ============================================================ C31
\* the call is a restoreStudent(X) made while a tombstone of X and an active student of X
\* (==) both exist
RestoreOntoActive ==
    /\ lastCall.op = "restoreStudent"
    /\ Exists(lastCall.pre.deletedStudents, LAMBDA t : LooseEq(t.student.id, lastCall.arg))
    /\ Exists(lastCall.pre.students, LAMBDA st : LooseEq(st.id, lastCall.arg))

\* C31 as stated: after soft-deleting student X and adding a new student with the same
\* id X, restoreStudent(X) succeeds and leaves two active students sharing id X
C31_RestoreCollision ==
    RestoreOntoActive =>
        /\ lastCall.ok
        /\ Count(lastCall.post.students, LAMBDA st : LooseEq(st.id, lastCall.arg)) = 2

\* C31, amended: restoreStudent(X) with a tombstone of X and an active student of X is
\* refused with "already exists in active students", the tombstone stays where it was and
\* the four collections are unchanged; and no restore that succeeds leaves more than one
\* active student of the restored id
C31_RestoreRefused ==
    /\ RestoreOntoActive =>
          /\ ~lastCall.ok
          /\ lastCall.value.kind = "ALREADY_ACTIVE"
          /\ lastCall.post = lastCall.pre
    /\ (lastCall.op = "restoreStudent" /\ lastCall.ok) =>
          Count(lastCall.post.students, LAMBDA st : LooseEq(st.id, lastCall.arg)) = 1

\* X was soft-deleted, a new student X was added, and the restore of X that follows the
\* add was refused
C31_Witness ==
    /\ RestoreOntoActive
    /\ lastCall.after.op = "addStudent"
    /\ ~lastCall.ok
    /\ Len(lastCall.post.students) = 1
    /\ Len(lastCall.post.deletedStudents) = 1
    /\ StrictEq(lastCall.post.students[1].id, lastCall.post.deletedStudents[1].student.id)

\* ============================================================ C32
\* the entries of a collection that refer to id (==), and those that do not
OfId(seq, key(_), id) == SelectSeq(seq, LAMBDA e : LooseEq(key(e), id))
NotOfId(seq, key(_), id) == SelectSeq(seq, LAMBDA e : ~LooseEq(key(e), id))
StudentKey(st) == st.id
LogKey(log) == log.studentId

\* C32: after deleteStudentTemporary(id) succeeds no active student, record or log refers
\* to id, exactly one tombstone was appended, holding the removed student, its record and
\* exactly the logs that referred to it, and the students, records and logs of other ids
\* are unchanged; when id is not active the call fails and nothing changes
C32_SoftDeleteLockstep ==
    lastCall.op = "deleteStudentTemporary" =>
        LET pre == lastCall.pre
            post == lastCall.post
            id == lastCall.arg
        IN IF Exists(pre.students, LAMBDA st : LooseEq(st.id, id))
           THEN /\ lastCall.ok
                /\ OfId(post.students, StudentKey, id) = <<>>
                /\ OfId(post.studentRecords, StudentKey, id) = <<>>
                /\ OfId(post.attendanceLogs, LogKey, id) = <<>>
                /\ Len(post.deletedStudents) = Len(pre.deletedStudents) + 1
                /\ SubSeq(post.deletedStudents, 1, Len(pre.deletedStudents))
                       = pre.deletedStudents
                /\ LET t == post.deletedStudents[Len(post.deletedStudents)]
                   IN /\ OfId(pre.students, StudentKey, id) = <<t.student>>
                      /\ OfId(pre.studentRecords, StudentKey, id)
                             = (IF t.record = NotFound THEN <<>> ELSE <<t.record>>)
                      /\ OfId(pre.attendanceLogs, LogKey, id) = t.logs
                /\ NotOfId(post.students, StudentKey, id)
                       = NotOfId(pre.students, StudentKey, id)
                /\ NotOfId(post.studentRecords, StudentKey, id)
                       = NotOfId(pre.studentRecords, StudentKey, id)
                /\ NotOfId(post.attendanceLogs, LogKey, id)
                       = NotOfId(pre.attendanceLogs, LogKey, id)
           ELSE /\ ~lastCall.ok
                /\ post = pre

\* ============================================================ C33
\* one of students, studentRecords, attendanceLogs of the payload is missing or no array
LacksAnArray(data) ==
    /\ data # NoPayload
    /\ \E f \in {"students", "studentRecords", "attendanceLogs"} :
          ~Has(data, f) \/ ~IsArray(data[f])

\* C33: importData with a payload whose students, studentRecords or attendanceLogs is not
\* an array throws and leaves the four local collections unchanged; when an exception
\* occurs while the payload is applied, the four collections are put back to exactly
\* their contents before the import and the error is rethrown
C33_ImportRolledBack ==
    lastCall.op = "importData" =>
        /\ LacksAnArray(lastCall.arg) =>
              /\ ~lastCall.ok
              /\ lastCall.value.kind = "INVALID_FIELD"
              /\ lastCall.post = lastCall.pre
        /\ lastCall.value.kind = "IMPORT_FAILED" =>
              /\ ~lastCall.ok
              /\ ExportData(lastCall.post) = ExportData(lastCall.pre)
              /\ dm[lastCall.client] = lastCall.pre
        /\ ~lastCall.ok => lastCall.post = lastCall.pre

\* an import failed while it was applied, on a device that held a student and a
\* tombstone from an earlier import, with a payload that has other students
C33_Witness ==
    /\ lastCall.op = "importData"
    /\ lastCall.value.kind = "IMPORT_FAILED"
    /\ lastCall.pre.students # <<>>
    /\ lastCall.pre.deletedStudents # <<>>
    /\ lastCall.arg.students.array # lastCall.pre.students
    /\ dm[lastCall.client] = lastCall.pre

\* ============================================================ C34
\* an entry that has all of student (with an id), record, logs, deletedAt and deletedBy
Normalised(e) ==
    /\ Has(e, "student") /\ Has(e.student, "id")
    /\ Has(e, "record") /\ Has(e, "logs") /\ Has(e, "deletedAt") /\ Has(e, "deletedBy")
\* an entry from which a student id can be extracted, directly or from its student
HasStudentId(item) == Has(item, "id") \/ (Has(item, "student") /\ Has(item.student, "id"))

\* C34: after validateAndFixDeletedStudentsStructure every remaining entry has all of
\* student (with an id), record, logs, deletedAt and deletedBy; the entries from which no
\* student id can be extracted are dropped and the others are kept; and a second run
\* changes nothing
C34_RepairNormalises ==
    lastCall.op = "validateAndFixDeletedStudentsStructure" =>
        LET before == lastCall.pre.deletedStudents
            after == lastCall.post.deletedStudents
        IN /\ \A i \in 1..Len(after) : Normalised(after[i])
           /\ Len(after) = Count(before, HasStudentId)
           /\ ValidateAndFix(Arr(after), lastCall.now + 1) = [ok |-> TRUE, value |-> after]

\* ============================================================ C35
\* C35: updateStudentSession with a session number below 1 or above maxSessions fails and
\* leaves students, studentRecords and attendanceLogs exactly as before the call,
\* including when the student exists but has no record yet
C35_BadSessionChangesNothing ==
    (/\ lastCall.op = "updateStudentSession"
     /\ (lastCall.arg.sessionNumber[2] < 1 \/ lastCall.arg.sessionNumber[2] > maxSessions))
    => /\ ~lastCall.ok
       /\ lastCall.post.students = lastCall.pre.students
       /\ lastCall.post.studentRecords = lastCall.pre.studentRecords
       /\ lastCall.post.attendanceLogs = lastCall.pre.attendanceLogs

\* ============================================================ C36
Bookkeeping == {"client-info", "heartbeat", "disconnect"}
\* a registry entry without the named property
Without(entry, f) == [g \in DOMAIN entry \ {f} |-> entry[g]]

\* C36: client-info, heartbeat and disconnect leave the server dataset as it is and change
\* nothing of any client; client-info changes the device type of the sender's registry
\* entry only, heartbeat its lastActivity only, and disconnect removes the sender's entry
\* only; a heartbeat writes no message to anyone, the other two write clients-update only
C36_BookkeepingFrame ==
    /\ [](last.op \in Bookkeeping =>
            /\ last.post = last.pre
            /\ appData = last.post
            /\ last.op = "heartbeat" => last.sent = <<>>
            /\ \A i \in 1..Len(last.sent) : last.sent[i].msg.type = "clients-update")
    /\ [][\A c \in Clients :
            /\ (\E type \in Bookkeeping : Handles(c, type)) =>
                  /\ appData' = appData
                  /\ UNCHANGED <<dm, toClient, link, connected, promises>>
                  /\ \A x \in DOMAIN connectedClients \ {c} :
                        x \in DOMAIN connectedClients' /\ connectedClients'[x] = connectedClients[x]
                  /\ DOMAIN connectedClients' \subseteq DOMAIN connectedClients
            /\ Handles(c, "client-info") =>
                  /\ c \in DOMAIN connectedClients'
                  /\ Without(connectedClients'[c], "deviceType")
                         = Without(connectedClients[c], "deviceType")
            /\ Handles(c, "heartbeat") =>
                  /\ c \in DOMAIN connectedClients'
                  /\ Without(connectedClients'[c], "lastActivity")
                         = Without(connectedClients[c], "lastActivity")
            /\ Handles(c, "disconnect") => c \notin DOMAIN connectedClients']_vars

\* the operator's device added a student and went away: the server has handled its
\* disconnect and still holds the student
C36_Witness ==
    /\ last.op = "disconnect"
    /\ last.client \in Operators
    /\ last.client \notin DOMAIN connectedClients
    /\ appData.students # <<>>

\* ============================================================ C37
\* the connections that have connected and whose disconnect the server has not handled
Alive == {c \in Clients : link[c] \/ Exists(toServer[c], LAMBDA m : m.type = "disconnect")}

\* C37: the registry holds exactly the connections that have connected and not yet
\* disconnected; an entry is added by a connection and removed by that connection's
\* disconnect and by no other step, heartbeats or not; and every clients-update reports
\* the size of the registry at the time it is sent
C37_RegistryLifetime ==
    /\ [](DOMAIN connectedClients = Alive)
    /\ [](last.op # "none" =>
            /\ last.registry = connectedClients
            /\ \A i \in 1..Len(last.sent) :
                  last.sent[i].msg.type = "clients-update" =>
                      last.sent[i].msg.count = Cardinality(DOMAIN connectedClients))
    /\ [][\A c \in Clients :
            /\ (c \in DOMAIN connectedClients /\ c \notin DOMAIN connectedClients')
                   => Handles(c, "disconnect")
            /\ (c \notin DOMAIN connectedClients /\ c \in DOMAIN connectedClients')
                   => ~link[c] /\ link'[c]]_vars

\* one device has gone and the server has said so to the one that stays, which never
\* sent a heartbeat and is still registered
C37_Witness ==
    /\ last.op = "disconnect"
    /\ Len(last.sent) = 1
    /\ last.sent[1].msg.count = 1
    /\ \E c \in Clients :
          /\ DOMAIN connectedClients = {c}
          /\ connectedClients[c].lastActivity = "connect"
          /\ last.sent[1].to = c
    /\ ops = MaxCalls

\* ============================================================ C38
\* nothing is in flight in either direction and no addStudent awaits its QR image
Quiescent ==
    \A c \in Clients : toClient[c] = <<>> /\ toServer[c] = <<>> /\ pendingAdd[c] = Undefined

\* C38: whenever no message is in flight and no operation is in progress, the students,
\* studentRecords, attendanceLogs and deletedStudents of every connected client equal
\* the server's
C38_ConvergenceAtQuiescence ==
    Quiescent =>
        \A c \in Clients : (connected[c] /\ link[c]) => dm[c] = Collections(appData)

\* ============================================================ C39
\* id is the id of an active student of the dataset (==)
ActiveOnServer(data, id) == Exists(data.students, LAMBDA st : LooseEq(st.id, id))

\* C39: on the server every attendance log's studentId and every student record's id is
\* the id of an active student, and a mark-attendance for an id with no active student
\* adds no log
C39_ReferentialIntegrity ==
    /\ \A i \in 1..Len(appData.attendanceLogs) :
          ActiveOnServer(appData, appData.attendanceLogs[i].studentId)
    /\ \A i \in 1..Len(appData.studentRecords) :
          ActiveOnServer(appData, appData.studentRecords[i].id)
    /\ (last.op = "mark-attendance" /\ ~ActiveOnServer(last.pre, last.msg.attendance.studentId))
          => last.post.attendanceLogs = last.pre.attendanceLogs

\* ============================================================ C40
\* the dataset holds what an operation-success carries: the added student, or the log
\* entry that was added or replaced
HoldsAnswer(d, m) ==
    IF m.operation = "add-student"
    THEN Exists(d.students, LAMBDA st : st = m.data)
    ELSE Exists(d.attendanceLogs, LAMBDA log : log = m.data)
\* the request an answer belongs to: the oldest promise of the operation still pending
OldestPending(ps, operation) ==
    FindIndex(ps, LAMBDA p : p.state = "pending" /\ p.op = operation)

====
